---- MODULE Spec2Model ----
(***************************************************************************)
(* Model of the GitHub -> Discord notification bot.                        *)
(*                                                                         *)
(* The store (guilds, repositories, subscriptions, event_logs) is          *)
(* translated from src/bot/storage/database.py (schema and constraints)    *)
(* and src/bot/storage/repositories.py (the repository classes).  The      *)
(* webhook dispatcher that sits on top of the store is not part of the     *)
(* available sources; it is modelled from sections 4.3-4.5 and 5 of the    *)
(* design document and calls the store only through the repository         *)
(* operations modelled from the code.                                      *)
(*                                                                         *)
(* The created_at / delivered_at columns of repositories, subscriptions    *)
(* and event_logs are caller-supplied timestamps that no modelled          *)
(* operation reads; they are left out of the rows.                         *)
(***************************************************************************)
EXTENDS Integers, Sequences, FiniteSets, TLC

\* ------------------------------------------------------------------------
\* Bounds and domains
\* ------------------------------------------------------------------------
MaxSubRows == 3          \* cap on rows in subscriptions (store specification)
MaxDispatches == 2       \* number of dispatch invocations explored
MaxConcurrent == 2       \* the configured concurrent-delivery limit
MaxLoads == 3            \* cap on the from_env calls of get_config/reload_config

None == 0                \* Python None for Optional[int] ids (ids start at 1)

GuildIds == {1, 2}
\* the (guild, repository id, channel) triples subscribe requests are drawn from
StoreTriples == {<<1, 1, "A">>, <<2, 1, "B">>, <<1, 2, "A">>}
Owners == {"acme"}
RepoNames == {"widgets", "gadgets"}
Urls == {"u1", "u2"}
RepoIds == {1, 2}
Channels == {"A", "B", "C"}
Kinds == {"pull_request", "push"}
EventKinds == Kinds \cup {"unhandled"}
Hashes == {"h1", "h2"}

\* enabled_events is a JSON array held as text; the text is represented by
\* the sequence of its elements.
EnabledEvents == {<<"pull_request">>, <<"pull_request", "push">>}

\* json.loads of the enabled_events text, as the set of kinds it lists
json_loads(text) == {text[i] : i \in 1..Len(text)}

VARIABLES
    guilds,            \* table guilds: sequence of rows in rowid order
    repositories,      \* table repositories
    subscriptions,     \* table subscriptions
    event_logs,        \* table event_logs
    seq,               \* sqlite_sequence: last AUTOINCREMENT id per table
    last_insert_rowid, \* the connection's last_insert_rowid()
    ret,               \* result of the last store call (value or exception)
    dispatch,          \* per dispatch invocation: its state
    ingest,            \* per webhook request: what the endpoint did with it
    bot,               \* the GitHubBot object and the gateway events it saw
    config,            \* the process environment and what from_env made of it
    cmd                \* the last guarded slash-command invocation

storeVars == <<guilds, repositories, subscriptions, event_logs, seq,
               last_insert_rowid>>
appVars == <<ingest, bot, config, cmd>>
vars == <<guilds, repositories, subscriptions, event_logs, seq,
          last_insert_rowid, ret, dispatch, ingest, bot, config, cmd>>

\* ------------------------------------------------------------------------
\* Sequence helpers
\* ------------------------------------------------------------------------
Range(s) == {s[i] : i \in 1..Len(s)}

RECURSIVE SelectRows(_, _)
\* SELECT ... WHERE: the rows of table (in rowid order) with index in keep
SelectRows(table, keep) ==
    IF table = <<>> THEN <<>>
    ELSE LET n == Len(table)
             front == SelectRows(SubSeq(table, 1, n - 1), keep)
         IN IF n \in keep THEN Append(front, table[n]) ELSE front

\* ------------------------------------------------------------------------
\* Schema constraints (database.py, initialize_schema)
\* ------------------------------------------------------------------------
\* repositories: UNIQUE(owner, name)
RepoConflict(owner, name) ==
    \E i \in 1..Len(repositories) :
        repositories[i].owner = owner /\ repositories[i].name = name

SubConflictAny(guild_id, repository_id, channel_id) == FALSE

\* subscriptions: UNIQUE(guild_id, repository_id, channel_id); the constraint
\* covers every row, active or not
SubConflict(guild_id, repository_id, channel_id) ==
    \E i \in 1..Len(subscriptions) :
        /\ subscriptions[i].guild_id = guild_id
        /\ subscriptions[i].repository_id = repository_id
        /\ subscriptions[i].channel_id = channel_id

\* ------------------------------------------------------------------------
\* RepositoryRepository
\* ------------------------------------------------------------------------
\* SELECT id FROM repositories WHERE owner = ? AND name = ?
SelectRepoId(table, owner, name) ==
    IF \E i \in 1..Len(table) : table[i].owner = owner /\ table[i].name = name
    THEN table[CHOOSE i \in 1..Len(table) :
                   table[i].owner = owner /\ table[i].name = name].id
    ELSE None

RepoInsertAlways(owner, name, url) ==
    Append(repositories,
           [id |-> seq.repositories + 1, owner |-> owner, name |-> name,
            url |-> url])

\* INSERT INTO repositories ... ON CONFLICT(owner, name) DO NOTHING
RepoInsert(owner, name, url) ==
    IF RepoConflict(owner, name) THEN repositories
    ELSE Append(repositories,
                [id |-> seq.repositories + 1, owner |-> owner, name |-> name,
                 url |-> url])

\* RepositoryRepository.create
RepositoryCreate(owner, name, url) ==
    LET table == RepoInsert(owner, name, url)
        inserted == Len(table) > Len(repositories)
    IN /\ repositories' = table
       /\ seq' = IF inserted
                 THEN [seq EXCEPT !.repositories = seq.repositories + 1]
                 ELSE seq
       /\ last_insert_rowid' = IF inserted THEN seq.repositories + 1
                               ELSE last_insert_rowid
       /\ ret' = [op |-> "repository_create", owner |-> owner, name |-> name,
                  url |-> url, id |-> SelectRepoId(table, owner, name),
                  error |-> "none"]
       /\ UNCHANGED <<guilds, subscriptions, event_logs, dispatch>>
       /\ UNCHANGED appVars

\* RepositoryRepository.get_by_full_name: the row, or None
get_by_full_name(owner, name) == SelectRepoId(repositories, owner, name)

\* ------------------------------------------------------------------------
\* SubscriptionRepository
\* ------------------------------------------------------------------------
\* SubscriptionRepository.create: a plain INSERT; the UNIQUE constraint makes
\* the statement fail with IntegrityError, which create does not catch.
\* Foreign keys are declared but sqlite does not enforce them unless
\* PRAGMA foreign_keys is switched on, which Database.connect never does.
SubscriptionCreate(guild_id, repository_id, channel_id, enabled_events, is_active) ==
    /\ SubConflict(guild_id, repository_id, channel_id)
           \/ Len(subscriptions) < MaxSubRows
    /\ IF SubConflict(guild_id, repository_id, channel_id)
       THEN /\ ret' = [op |-> "subscription_create", guild_id |-> guild_id,
                       repository_id |-> repository_id,
                       channel_id |-> channel_id,
                       enabled_events |-> enabled_events,
                       id |-> None, error |-> "IntegrityError"]
            /\ UNCHANGED <<subscriptions, seq, last_insert_rowid>>
       ELSE /\ subscriptions' = Append(subscriptions,
                   [id |-> seq.subscriptions + 1, guild_id |-> guild_id,
                    repository_id |-> repository_id,
                    channel_id |-> channel_id,
                    enabled_events |-> enabled_events,
                    is_active |-> is_active])
            /\ seq' = [seq EXCEPT !.subscriptions = seq.subscriptions + 1]
            /\ last_insert_rowid' = seq.subscriptions + 1
            /\ ret' = [op |-> "subscription_create", guild_id |-> guild_id,
                       repository_id |-> repository_id,
                       channel_id |-> channel_id,
                       enabled_events |-> enabled_events,
                       id |-> seq.subscriptions + 1, error |-> "none"]
    /\ UNCHANGED <<guilds, repositories, event_logs, dispatch>>
    /\ UNCHANGED appVars

SubscriptionDeleteHard(subscription_id) ==
    /\ subscriptions' = SelectRows(subscriptions,
                             {i \in 1..Len(subscriptions) :
                                  subscriptions[i].id # subscription_id})
    /\ ret' = [op |-> "subscription_delete", id |-> subscription_id,
               error |-> "none"]
    /\ UNCHANGED <<guilds, repositories, event_logs, seq, last_insert_rowid,
                   dispatch>>
    /\ UNCHANGED appVars

\* SubscriptionRepository.delete: UPDATE subscriptions SET is_active = 0
\* WHERE id = ?
SubscriptionDelete(subscription_id) ==
    /\ subscriptions' = [i \in 1..Len(subscriptions) |->
                            IF subscriptions[i].id = subscription_id
                            THEN [subscriptions[i] EXCEPT !.is_active = FALSE]
                            ELSE subscriptions[i]]
    /\ ret' = [op |-> "subscription_delete", id |-> subscription_id,
               error |-> "none"]
    /\ UNCHANGED <<guilds, repositories, event_logs, seq, last_insert_rowid,
                   dispatch>>
    /\ UNCHANGED appVars

get_by_repository_all(repository_id) ==
    SelectRows(subscriptions,
               {i \in 1..Len(subscriptions) :
                    subscriptions[i].repository_id = repository_id})

\* SubscriptionRepository.get_by_repository:
\* SELECT * FROM subscriptions WHERE repository_id = ? AND is_active = 1
get_by_repository(repository_id) ==
    SelectRows(subscriptions,
               {i \in 1..Len(subscriptions) :
                    /\ subscriptions[i].repository_id = repository_id
                    /\ subscriptions[i].is_active})

\* ------------------------------------------------------------------------
\* EventLogRepository
\* ------------------------------------------------------------------------
EventLogInsertDropFailures(row) ==
    IF row.success
    THEN Append(event_logs, [row EXCEPT !.event_id = seq.event_logs + 1])
    ELSE event_logs

EventLogInsertNoHash(row) ==
    Append(event_logs,
           [row EXCEPT !.event_id = seq.event_logs + 1,
                       !.payload_hash = "None"])

EventLogInsertUniqueHash(row) ==
    IF \E i \in 1..Len(event_logs) :
           event_logs[i].payload_hash = row.payload_hash
    THEN event_logs
    ELSE Append(event_logs, [row EXCEPT !.event_id = seq.event_logs + 1])

EventLogInsertReplaceLast(row) ==
    IF event_logs = <<>>
    THEN <<[row EXCEPT !.event_id = seq.event_logs + 1]>>
    ELSE Append(SubSeq(event_logs, 1, Len(event_logs) - 1),
                [row EXCEPT !.event_id = seq.event_logs + 1])

\* INSERT INTO event_logs (...) VALUES (...): appends the row under the next
\* AUTOINCREMENT event_id; the table has no uniqueness constraint
EventLogInsert(row) ==
    Append(event_logs, [row EXCEPT !.event_id = seq.event_logs + 1])

\* EventLogRepository.create run to its end with no other caller in between:
\* the INSERT, then event_log.event_id = get_last_insert_id().  event_logs
\* declares FOREIGN KEY (repository_id) and (guild_id), which sqlite does
\* not enforce on this connection
EventLogCreate(row) ==
    /\ Len(event_logs) < MaxSubRows
    /\ event_logs' = EventLogInsert(row)
    /\ seq' = [seq EXCEPT !.event_logs = seq.event_logs + 1]
    /\ last_insert_rowid' = seq.event_logs + 1
    /\ ret' = [op |-> "event_log_create", guild_id |-> row.guild_id,
               repository_id |-> row.repository_id,
               id |-> seq.event_logs + 1, error |-> "none"]
    /\ UNCHANGED <<guilds, repositories, subscriptions, dispatch>>
    /\ UNCHANGED appVars

\* ------------------------------------------------------------------------
\* Subscription Store lookup and Dedup Guard used by the pipeline
\* ------------------------------------------------------------------------
matchingSubscriptionsAnyKind(owner, name, kind) ==
    LET rid == get_by_full_name(owner, name)
    IN IF rid = None THEN <<>> ELSE get_by_repository(rid)

\* matchingSubscriptions(repositoryFullName, eventKind): the repository is
\* resolved by full name, its active subscriptions are read through
\* get_by_repository, and those whose enabled-event list holds the kind are
\* kept, in table order
matchingSubscriptions(owner, name, kind) ==
    LET rid == get_by_full_name(owner, name)
        active == IF rid = None THEN <<>> ELSE get_by_repository(rid)
    IN SelectRows(active,
                  {i \in 1..Len(active) :
                       kind \in json_loads(active[i].enabled_events)})

\* The lookup as an operation of the store whose result is observed
MatchingLookup(owner, name, kind) ==
    /\ ret' = [op |-> "matching", owner |-> owner, name |-> name,
               kind |-> kind,
               result |-> matchingSubscriptions(owner, name, kind),
               error |-> "none"]
    /\ UNCHANGED <<storeVars, dispatch>>
    /\ UNCHANGED appVars

alreadyDeliveredNever(hash, channel_id) == FALSE

\* alreadyDelivered(dedupHash, channelId): a successful delivery of that
\* hash to that channel is on record
alreadyDelivered(hash, channel_id) ==
    \E i \in 1..Len(event_logs) :
        /\ event_logs[i].payload_hash = hash
        /\ event_logs[i].channel_id = channel_id
        /\ event_logs[i].success

\* ------------------------------------------------------------------------
\* Fan-out Dispatcher (design document 4.5 and 5)
\* ------------------------------------------------------------------------
Dispatches == 1..MaxDispatches

\* SinkResult, plus the per-attempt timeout that cancels a delivery
Outcomes == {"success", "permission_denied", "channel_unavailable",
             "rate_limited", "transport_error", "timeout"}

NoEvent == [kind |-> "none", owner |-> "none", name |-> "none",
            hash |-> "none"]

ZeroSummary == [delivered |-> 0, failed |-> 0, skipped |-> 0]

IdleDispatch == [state |-> "idle", event |-> NoEvent, subs |-> <<>>,
                 task |-> <<>>, outcomes |-> <<>>, logged |-> <<>>,
                 summary |-> ZeroSummary]

\* task states that hold a slot of the delivery pool
InFlightStates == {"check", "send", "record", "backoff"}

InFlight(d) ==
    Cardinality({s \in 1..Len(dispatch[d].task) :
                     dispatch[d].task[s] \in InFlightStates})

RetryAnyFailure(outcomes) ==
    Len(outcomes) = 1 /\ outcomes[1] # "success"

\* step 3e: only a rate-limited first attempt is retried, once
ShouldRetry(outcomes) ==
    Len(outcomes) = 1 /\ outcomes[1] = "rate_limited"

PoolHasRoomAlways(d) == TRUE

\* step 3: a queued delivery starts only while the pool has a free slot
PoolHasRoom(d) == InFlight(d) < MaxConcurrent

\* dispatch(event), steps 1 and 2, and the creation of the delivery tasks
\* (overlap: whether the request may arrive while another dispatch runs)
StartDispatch(d, ev, overlap) ==
    /\ dispatch[d].state = "idle"
    /\ \A e \in Dispatches :
           e < d => dispatch[e].state # "idle" \/ ingest[e].status # 0
    /\ overlap \/ \A e \in Dispatches : dispatch[e].state # "running"
    /\ LET subs == IF ev.kind = "unhandled" THEN <<>>
                   ELSE matchingSubscriptions(ev.owner, ev.name, ev.kind)
       IN IF subs = <<>>
          THEN /\ dispatch' = [dispatch EXCEPT ![d] =
                      [IdleDispatch EXCEPT !.state = "done", !.event = ev,
                           !.summary = [ZeroSummary EXCEPT !.skipped = 1]]]
               /\ ret' = [op |-> "dispatch", d |-> d,
                          summary |-> [ZeroSummary EXCEPT !.skipped = 1],
                          error |-> "none"]
          ELSE /\ dispatch' = [dispatch EXCEPT ![d] =
                      [state |-> "running", event |-> ev, subs |-> subs,
                       task |-> [s \in 1..Len(subs) |-> "queued"],
                       outcomes |-> [s \in 1..Len(subs) |-> <<>>],
                       logged |-> [s \in 1..Len(subs) |-> <<>>],
                       summary |-> ZeroSummary]]
               /\ UNCHANGED ret
    /\ UNCHANGED storeVars
    /\ UNCHANGED appVars

\* step 3: a queued delivery enters the pool
Acquire(d, s) ==
    /\ dispatch[d].state = "running"
    /\ s \in 1..Len(dispatch[d].task)
    /\ dispatch[d].task[s] = "queued"
    /\ PoolHasRoom(d)
    /\ dispatch' = [dispatch EXCEPT ![d].task[s] = "check"]
    /\ UNCHANGED <<storeVars, ret>>
    /\ UNCHANGED appVars

\* step 3a: the dedup guard; a destination already served is skipped
DedupCheck(d, s) ==
    /\ dispatch[d].state = "running"
    /\ s \in 1..Len(dispatch[d].task)
    /\ dispatch[d].task[s] = "check"
    /\ IF alreadyDelivered(dispatch[d].event.hash,
                           dispatch[d].subs[s].channel_id)
       THEN dispatch' = [dispatch EXCEPT
                ![d].task[s] = "done",
                ![d].summary.skipped = dispatch[d].summary.skipped + 1]
       ELSE dispatch' = [dispatch EXCEPT ![d].task[s] = "send"]
    /\ UNCHANGED <<storeVars, ret>>
    /\ UNCHANGED appVars

\* steps 3b-3c: render and call the sink; the sink decides the outcome.
\* A task in backoff sends again once the sink-supplied interval has passed
Send(d, s, outcome) ==
    /\ dispatch[d].state = "running"
    /\ s \in 1..Len(dispatch[d].task)
    /\ dispatch[d].task[s] \in {"send", "backoff"}
    /\ dispatch' = [dispatch EXCEPT
           ![d].task[s] = "record",
           ![d].outcomes[s] = Append(dispatch[d].outcomes[s], outcome)]
    /\ UNCHANGED <<storeVars, ret>>
    /\ UNCHANGED appVars

\* steps 3d-3e: count the attempt and write its DeliveryRecord through
\* EventLogRepository.create.  The INSERT is the write; create's later call
\* of get_last_insert_id only fills event_id of the object it returns, which
\* the dispatcher does not read.  logged keeps, as history, the event_id
\* the table stood at after the INSERT of each attempt.
Record(d, s) ==
    /\ dispatch[d].state = "running"
    /\ s \in 1..Len(dispatch[d].task)
    /\ dispatch[d].task[s] = "record"
    /\ LET outs == dispatch[d].outcomes[s]
           outcome == outs[Len(outs)]
           ok == outcome = "success"
           sub == dispatch[d].subs[s]
           row == [event_id |-> None,
                   event_type |-> dispatch[d].event.kind,
                   repository_id |-> sub.repository_id,
                   guild_id |-> sub.guild_id,
                   channel_id |-> sub.channel_id,
                   payload_hash |-> dispatch[d].event.hash,
                   success |-> ok,
                   error_message |-> IF ok THEN "None" ELSE outcome]
           table == EventLogInsert(row)
           inserted == Len(table) > Len(event_logs)
       IN /\ event_logs' = table
          /\ seq' = IF inserted
                    THEN [seq EXCEPT !.event_logs = seq.event_logs + 1]
                    ELSE seq
          /\ last_insert_rowid' = IF inserted THEN seq.event_logs + 1
                                  ELSE last_insert_rowid
          /\ dispatch' = [dispatch EXCEPT
                 ![d].task[s] = IF ShouldRetry(outs) THEN "backoff"
                                ELSE "done",
                 ![d].logged[s] = Append(dispatch[d].logged[s],
                                         seq'.event_logs),
                 ![d].summary.delivered =
                     dispatch[d].summary.delivered + (IF ok THEN 1 ELSE 0),
                 ![d].summary.failed =
                     dispatch[d].summary.failed + (IF ok THEN 0 ELSE 1)]
    /\ UNCHANGED <<guilds, repositories, subscriptions, ret>>
    /\ UNCHANGED appVars

\* step 4: every delivery task has finished; return the DispatchSummary
Finish(d) ==
    /\ dispatch[d].state = "running"
    /\ \A s \in 1..Len(dispatch[d].task) : dispatch[d].task[s] = "done"
    /\ dispatch' = [dispatch EXCEPT ![d].state = "done"]
    /\ ret' = [op |-> "dispatch", d |-> d, summary |-> dispatch[d].summary,
               error |-> "none"]
    /\ UNCHANGED storeVars
    /\ UNCHANGED appVars

\* ------------------------------------------------------------------------
\* BotConfig (core/config.py)
\* ------------------------------------------------------------------------
\* The process environment is a function from the names that are set to
\* their text; a name outside its domain is unset.
RequiredNames == {"DISCORD_BOT_TOKEN", "DISCORD_APPLICATION_ID",
                  "GITHUB_WEBHOOK_SECRET"}

OptionalNames == {"WEBHOOK_HOST", "WEBHOOK_PORT", "DATABASE_URL",
                  "LOG_LEVEL", "LOG_FORMAT", "DEBUG_MODE",
                  "SYNC_COMMANDS_ON_READY"}

\* os.getenv(key, default)
getenv(env, key, default) == IF key \in DOMAIN env THEN env[key] ELSE default

MissingUnsetOnly(env, key) == key \notin DOMAIN env

\* not os.getenv(key): the name is unset (None) or set to the empty string
Missing(env, key) == key \notin DOMAIN env \/ env[key] = ""

\* int(text) on the port texts explored: decimal digits convert, anything
\* else (the empty string included) raises ValueError
int(text) ==
    CASE text = "8000" -> [ok |-> TRUE, value |-> 8000]
      [] text = "8080" -> [ok |-> TRUE, value |-> 8080]
      [] text = "0" -> [ok |-> TRUE, value |-> 0]
      [] OTHER -> [ok |-> FALSE, value |-> 0]

\* str.lower() on the flag texts explored
lower(text) ==
    CASE text = "TRUE" -> "true"
      [] text = "True" -> "true"
      [] text = "FALSE" -> "false"
      [] OTHER -> text

NoBotConfig ==
    [token |-> "None", application_id |-> "None", webhook_secret |-> "None",
     webhook_host |-> "None", webhook_port |-> 0, database_url |-> "None",
     log_level |-> "None", log_format |-> "None", debug_mode |-> FALSE,
     sync_commands_on_ready |-> FALSE]

\* BotConfig.from_env: the BotConfig built from env, or the exception raised
from_env(env) ==
    IF Missing(env, "DISCORD_BOT_TOKEN")
    THEN [error |-> "ValueError", message |-> "DISCORD_BOT_TOKEN is required",
          value |-> NoBotConfig]
    ELSE IF Missing(env, "DISCORD_APPLICATION_ID")
    THEN [error |-> "ValueError",
          message |-> "DISCORD_APPLICATION_ID is required",
          value |-> NoBotConfig]
    ELSE IF Missing(env, "GITHUB_WEBHOOK_SECRET")
    THEN [error |-> "ValueError",
          message |-> "GITHUB_WEBHOOK_SECRET is required",
          value |-> NoBotConfig]
    ELSE IF ~int(getenv(env, "WEBHOOK_PORT", "8000")).ok
    THEN [error |-> "ValueError", message |-> "invalid literal for int()",
          value |-> NoBotConfig]
    ELSE [error |-> "none", message |-> "",
          value |->
            [token |-> env["DISCORD_BOT_TOKEN"],
             application_id |-> env["DISCORD_APPLICATION_ID"],
             webhook_secret |-> env["GITHUB_WEBHOOK_SECRET"],
             webhook_host |-> getenv(env, "WEBHOOK_HOST", "0.0.0.0"),
             webhook_port |-> int(getenv(env, "WEBHOOK_PORT", "8000")).value,
             database_url |->
                 getenv(env, "DATABASE_URL", "sqlite:///data/bot.db"),
             log_level |-> getenv(env, "LOG_LEVEL", "INFO"),
             log_format |->
                 getenv(env, "LOG_FORMAT",
                   "%(asctime)s | %(levelname)-8s | %(name)s | %(message)s"),
             debug_mode |->
                 lower(getenv(env, "DEBUG_MODE", "false")) = "true",
             sync_commands_on_ready |->
                 lower(getenv(env, "SYNC_COMMANDS_ON_READY", "true"))
                     = "true"]]

\* BotConfig.validate: the exception it raises, if any
validate(value) ==
    IF value.webhook_port < 1 \/ value.webhook_port > 65535
    THEN "ValueError"
    ELSE IF value.log_level
                \notin {"DEBUG", "INFO", "WARNING", "ERROR", "CRITICAL"}
    THEN "ValueError"
    ELSE "none"

\* _config = None: no instance.  An instance is a BotConfig object with its
\* identity, the number of the from_env call that built it
NoInstance == [id |-> 0, value |-> NoBotConfig]

\* _config = BotConfig.from_env(); _config.validate(); return _config.
\* The global is assigned as soon as from_env returns, before validate
\* runs; loads counts the reads of the environment
LoadGlobal(op) ==
    LET r == from_env(config.env)
        instance == [id |-> config.loads + 1, value |-> r.value]
    IN config' = [config EXCEPT
           !.loads = config.loads + 1,
           !.op = op,
           !.error = IF r.error # "none" THEN r.error
                     ELSE validate(r.value),
           !.global = IF r.error # "none" THEN config.global ELSE instance,
           !.returned = IF r.error = "none" /\ validate(r.value) = "none"
                        THEN instance ELSE NoInstance]

GetConfigAlwaysLoad ==
    /\ config.loads < MaxLoads
    /\ LoadGlobal("get_config")
    /\ UNCHANGED <<storeVars, ret, dispatch, ingest, bot, cmd>>

\* get_config
GetConfig ==
    /\ config.global.id # 0 \/ config.loads < MaxLoads
    /\ IF config.global.id = 0
       THEN LoadGlobal("get_config")
       ELSE config' = [config EXCEPT !.op = "get_config", !.error = "none",
                           !.returned = config.global]
    /\ UNCHANGED <<storeVars, ret, dispatch, ingest, bot, cmd>>

\* reload_config
ReloadConfig ==
    /\ config.loads < MaxLoads
    /\ LoadGlobal("reload_config")
    /\ UNCHANGED <<storeVars, ret, dispatch, ingest, bot, cmd>>

\* the process environment is changed (os.environ, outside this module)
SetEnviron(env) ==
    /\ config.env # env
    /\ config' = [config EXCEPT !.env = env]
    /\ UNCHANGED <<storeVars, ret, dispatch, ingest, bot, cmd>>

\* a call of BotConfig.from_env in the current environment
FromEnv ==
    /\ config' = [config EXCEPT !.called = TRUE,
                      !.error = from_env(config.env).error,
                      !.message = from_env(config.env).message,
                      !.value = from_env(config.env).value]
    /\ UNCHANGED <<storeVars, ret, dispatch, ingest, bot, cmd>>

\* ------------------------------------------------------------------------
\* The parts of the process outside the store and the dispatcher, at rest
\* ------------------------------------------------------------------------
\* a request slot the endpoint has not received yet
NoRequest == [status |-> 0, parsed |-> FALSE, error |-> "none",
              event |-> NoEvent]

\* GitHubBot.__init__: no service is injected yet; joined and removed keep,
\* as history, the guilds whose gateway events the bot has processed
GitHubBot == [subscription_service |-> "None", joined |-> {}, removed |-> {},
              setup |-> [state |-> "idle", attempted |-> <<>>,
                         outcomes |-> <<>>, sync |-> "none",
                         raised |-> "none"]]

\* no environment has been read
NoConfig == [env |-> [k \in {} |-> ""], called |-> FALSE, error |-> "none",
             message |-> "", value |-> NoBotConfig, global |-> NoInstance,
             loads |-> 0, op |-> "none", returned |-> NoInstance]

\* on_app_command_error has not run for the invocation
NoErrorHandling == [handled |-> FALSE, is_done |-> FALSE, followups |-> 0,
                    responses |-> 0, outcome |-> "none", raised |-> "none"]

\* no guarded command has been invoked
NoCall == [guard |-> "none", on_error |-> NoErrorHandling]

AppIdle ==
    /\ ingest = [d \in Dispatches |-> NoRequest]
    /\ bot = GitHubBot
    /\ config = NoConfig
    /\ cmd = NoCall

\* ------------------------------------------------------------------------
\* Ingestion endpoint: Signature Verifier and Event Normalizer (design
\* document 4.1, 4.2, 6 and 7)
\* ------------------------------------------------------------------------
Secrets == {"", "s1", "s2"}

\* Raw request bodies, each represented by what parsing its bytes yields:
\* whether it is structured data at all and, if so, the fields it carries
\* ("none": the field is absent)
Bodies ==
    {[json |-> TRUE, owner |-> "acme", name |-> "widgets",
      action |-> "opened", number |-> "1"],
     [json |-> TRUE, owner |-> "none", name |-> "none",
      action |-> "opened", number |-> "1"],
     [json |-> FALSE, owner |-> "none", name |-> "none",
      action |-> "none", number |-> "none"]}

\* the keyed hash: a collision-free function of the key and the exact bytes
HMAC(secret, rawBody) == [key |-> secret, msg |-> rawBody]

\* Signature headers: absent, "sha256=<hex digest>" for the digest of any
\* key and body, or a digest under another scheme or without the separator
\* (the empty scheme)
SignatureHeaders ==
    {[present |-> FALSE, scheme |-> "",
      digest |-> HMAC("", CHOOSE b \in Bodies : ~b.json)]}
    \cup [present : {TRUE}, scheme : {"sha256"},
          digest : {HMAC(k, b) : k \in Secrets, b \in Bodies}]
    \cup [present : {TRUE}, scheme : {"sha1", ""},
          digest : {HMAC("s1", CHOOSE b \in Bodies : b.name = "widgets")}]

verifyDigestOnly(rawBody, signatureHeader, secret) ==
    /\ signatureHeader.present
    /\ signatureHeader.digest = HMAC(secret, rawBody)

\* verify(rawBody, signatureHeader, secret): fails closed
verify(rawBody, signatureHeader, secret) ==
    /\ secret # ""
    /\ signatureHeader.present
    /\ signatureHeader.scheme = "sha256"
    /\ signatureHeader.digest = HMAC(secret, rawBody)

\* event-type header values: two rendered kinds, one the source sends that
\* has no extraction rule, one that is no event kind at all
EventTypes == {"pull_request", "push", "ping", "bogus"}

\* source-supplied delivery identifier header ("none": absent)
DeliveryIds == {"none", "h1"}

\* the content hash over (kind, repository full name, action, primary
\* entity number)
contentHash(kind, owner, name, action, number) ==
    kind \o ":" \o owner \o "/" \o name \o ":" \o action \o ":" \o number

normalizeLenient(eventTypeHeader, rawBody, deliveryId) ==
    [error |-> "none",
     event |-> [kind |-> IF eventTypeHeader \in Kinds THEN eventTypeHeader
                         ELSE "unhandled",
                owner |-> rawBody.owner, name |-> rawBody.name,
                hash |-> IF deliveryId # "none" THEN deliveryId
                         ELSE contentHash(eventTypeHeader, rawBody.owner,
                                  rawBody.name, rawBody.action,
                                  rawBody.number)]]

\* normalize(eventTypeHeader, rawBody), with the delivery-identifier header
\* that seeds the dedup hash
normalize(eventTypeHeader, rawBody, deliveryId) ==
    IF eventTypeHeader \notin Kinds \cup {"ping"}
    THEN [error |-> "UnknownKind", event |-> NoEvent]
    ELSE IF ~rawBody.json \/ rawBody.owner = "none" \/ rawBody.name = "none"
    THEN [error |-> "MalformedPayload", event |-> NoEvent]
    ELSE LET kind == IF eventTypeHeader \in Kinds THEN eventTypeHeader
                     ELSE "unhandled"
         IN [error |-> "none",
             event |-> [kind |-> kind, owner |-> rawBody.owner,
                        name |-> rawBody.name,
                        hash |-> IF deliveryId # "none" THEN deliveryId
                                 ELSE contentHash(kind, rawBody.owner,
                                          rawBody.name, rawBody.action,
                                          rawBody.number)]]

\* the requests the endpoint is explored with
Requests == [body : Bodies, signature : SignatureHeaders,
             event_type : EventTypes, delivery : DeliveryIds]

\* POST /webhook/github: the raw body is verified, then normalized; both
\* steps are non-suspending, so the handler is one step up to its response.
\* 401 on a signature failure, 400 on a malformed body, 200 otherwise; an
\* event that normalized is left for the fan-out stage
HandleWebhook(d, req) ==
    /\ ingest[d].status = 0
    /\ \A e \in Dispatches : e < d => ingest[e].status # 0
    /\ IF ~verify(req.body, req.signature, config.value.webhook_secret)
       THEN ingest' = [ingest EXCEPT ![d] =
                [status |-> 401, parsed |-> FALSE,
                 error |-> "SignatureInvalid", event |-> NoEvent]]
       ELSE LET n == normalize(req.event_type, req.body, req.delivery)
            IN ingest' = [ingest EXCEPT ![d] =
                   [status |-> IF n.error = "MalformedPayload" THEN 400
                               ELSE 200,
                    parsed |-> TRUE, error |-> n.error, event |-> n.event]]
    /\ UNCHANGED <<storeVars, ret, dispatch, bot, config, cmd>>

\* the fan-out stage takes up an accepted event
DispatchAccepted(d) ==
    /\ ingest[d].status = 200
    /\ ingest[d].error = "none"
    /\ StartDispatch(d, ingest[d].event, FALSE)

\* ------------------------------------------------------------------------
\* GuildRepository (storage/repositories.py) and the gateway events of
\* GitHubBot (core/bot.py)
\* ------------------------------------------------------------------------
GuildNames == {"g1", "g2"}

\* timestamps: created_at of a Guild object, CURRENT_TIMESTAMP of the store
Times == {1, 2}

GuildInsertOrReplace(guild_id, name, created_at, now) ==
    IF \E i \in 1..Len(guilds) : guilds[i].guild_id = guild_id
    THEN [i \in 1..Len(guilds) |->
              IF guilds[i].guild_id = guild_id
              THEN [guild_id |-> guild_id, name |-> name,
                    created_at |-> created_at, updated_at |-> None]
              ELSE guilds[i]]
    ELSE Append(guilds,
                [guild_id |-> guild_id, name |-> name,
                 created_at |-> created_at, updated_at |-> None])

\* INSERT INTO guilds (guild_id, name, created_at) VALUES (?, ?, ?)
\* ON CONFLICT(guild_id) DO UPDATE SET name = excluded.name,
\* updated_at = CURRENT_TIMESTAMP
GuildUpsert(guild_id, name, created_at, now) ==
    IF \E i \in 1..Len(guilds) : guilds[i].guild_id = guild_id
    THEN [i \in 1..Len(guilds) |->
              IF guilds[i].guild_id = guild_id
              THEN [guilds[i] EXCEPT !.name = name, !.updated_at = now]
              ELSE guilds[i]]
    ELSE Append(guilds,
                [guild_id |-> guild_id, name |-> name,
                 created_at |-> created_at, updated_at |-> None])

\* GuildRepository.create, as far as the store goes: guild_id is the
\* table's INTEGER PRIMARY KEY, so an insert sets last_insert_rowid to it
GuildCreateStore(guild_id, name, created_at, now) ==
    LET table == GuildUpsert(guild_id, name, created_at, now)
        inserted == Len(table) > Len(guilds)
    IN /\ guilds' = table
       /\ last_insert_rowid' = IF inserted THEN guild_id
                               ELSE last_insert_rowid
       /\ ret' = [op |-> "guild_create", guild_id |-> guild_id,
                  name |-> name, error |-> "none"]
       /\ UNCHANGED <<repositories, subscriptions, event_logs, seq>>

\* GuildRepository.create
GuildCreate(guild_id, name, created_at, now) ==
    /\ GuildCreateStore(guild_id, name, created_at, now)
    /\ UNCHANGED <<dispatch, appVars>>

\* GitHubBot.inject_services
InjectServices ==
    /\ bot' = [bot EXCEPT !.subscription_service = "injected"]
    /\ UNCHANGED <<storeVars, ret, dispatch, ingest, config, cmd>>

\* what a call of subscription_service.register_guild can come to
RegisterOutcomes == {"registered", "raised"}

OnGuildJoinNoService(guild_id, name, now, outcome) ==
    /\ UNCHANGED <<storeVars, ret>>
    /\ bot' = [bot EXCEPT !.joined = bot.joined \cup {guild_id}]
    /\ UNCHANGED <<dispatch, ingest, config, cmd>>

\* GitHubBot.on_guild_join: with a subscription service injected it calls
\* register_guild, which stores the guild, registered now, through
\* GuildRepository.create or raises; an exception is logged and dropped.
\* Without a service the event is only logged.
OnGuildJoin(guild_id, name, now, outcome) ==
    /\ IF bot.subscription_service # "None" /\ outcome = "registered"
       THEN GuildCreateStore(guild_id, name, now, now)
       ELSE UNCHANGED <<storeVars, ret>>
    /\ bot' = [bot EXCEPT !.joined = bot.joined \cup {guild_id}]
    /\ UNCHANGED <<dispatch, ingest, config, cmd>>

OnGuildRemoveCleanup(guild_id) ==
    /\ guilds' = SelectRows(guilds, {i \in 1..Len(guilds) :
                                        guilds[i].guild_id # guild_id})
    /\ subscriptions' = [i \in 1..Len(subscriptions) |->
                            IF subscriptions[i].guild_id = guild_id
                            THEN [subscriptions[i] EXCEPT !.is_active = FALSE]
                            ELSE subscriptions[i]]
    /\ bot' = [bot EXCEPT !.removed = bot.removed \cup {guild_id}]
    /\ UNCHANGED <<repositories, event_logs, seq, last_insert_rowid, ret,
                   dispatch, ingest, config, cmd>>

\* GitHubBot.on_guild_remove: the event is logged; nothing is cleaned up
OnGuildRemove(guild_id) ==
    /\ bot' = [bot EXCEPT !.removed = bot.removed \cup {guild_id}]
    /\ UNCHANGED <<storeVars, ret, dispatch, ingest, config, cmd>>

\* ------------------------------------------------------------------------
\* Command guards (core/permissions.py)
\* ------------------------------------------------------------------------
\* attributes of discord.Permissions the guards are explored with
PermissionFlags == {"manage_channels", "administrator"}

UserIds == {1, 2}

\* an Interaction: whether it has a guild, whether its user is a
\* discord.Member, the member's guild permissions, the user's id
Interactions == [guild : BOOLEAN, member : BOOLEAN,
                 guild_permissions : [PermissionFlags -> BOOLEAN],
                 user_id : UserIds]

\* the keyword arguments has_permissions is applied to; manage_webhook is
\* no attribute of discord.Permissions
RequiredPerms ==
    {"manage_channels" :> TRUE,
     "administrator" :> TRUE,
     "administrator" :> FALSE,
     ("manage_channels" :> TRUE) @@ ("manage_webhook" :> TRUE)}

NoPerms == [p \in {} |-> TRUE]

\* what interaction.client.application_info() comes to: it raises, or
\* returns the owner and, for an application owned by a team, the team
AppInfos ==
    {[fetched |-> FALSE, team |-> FALSE, members |-> {}, owner_id |-> 1],
     [fetched |-> TRUE, team |-> FALSE, members |-> {}, owner_id |-> 1],
     [fetched |-> TRUE, team |-> TRUE, members |-> {2}, owner_id |-> 1]}

NoAppInfo == [fetched |-> FALSE, team |-> FALSE, members |-> {},
              owner_id |-> 0]

\* what the wrapped command handler does when it is called: it responds
\* and returns, or raises this module's PermissionError, or raises
\* another exception
Handlers == {"returns", "PermissionError", "Exception"}

missingGrantedOnly(perms, permissions) ==
    {perm \in DOMAIN perms :
         perm \in DOMAIN permissions /\ permissions[perm] # perms[perm]}

\* has_permissions.predicate, the loop: the flags for which
\* getattr(permissions, perm, None) != value
missing(perms, permissions) ==
    {perm \in DOMAIN perms :
         perm \notin DOMAIN permissions \/ permissions[perm] # perms[perm]}

\* has_permissions.predicate: the PermissionError it raises, if any
has_permissions_predicate(perms, interaction) ==
    IF ~interaction.guild
    THEN [raised |-> "PermissionError",
          message |-> "This command can only be used in a server."]
    ELSE IF ~interaction.member
    THEN [raised |-> "PermissionError",
          message |-> "Could not retrieve member information."]
    ELSE IF missing(perms, interaction.guild_permissions) # {}
    THEN [raised |-> "PermissionError",
          message |-> "You are missing the following permissions"]
    ELSE [raised |-> "none", message |-> ""]

\* is_owner.predicate: the exception it raises, if any
is_owner_predicate(interaction, app_info) ==
    IF ~app_info.fetched
    THEN [raised |-> "HTTPException", message |-> ""]
    ELSE LET is_owner_user ==
                 IF app_info.team
                 THEN interaction.user_id \in app_info.members
                 ELSE interaction.user_id = app_info.owner_id
         IN IF ~is_owner_user
            THEN [raised |-> "PermissionError",
                  message |->
                      "This command is restricted to bot owners only."]
            ELSE [raised |-> "none", message |-> ""]

\* try: await predicate(interaction); return await func(interaction)
\* except PermissionError: send the error embed, ephemeral.
\* The result: how often func was called, the responses sent through
\* interaction.response, and the exception that leaves the wrapper
wrapper(pred, title, handler) ==
    IF pred.raised = "PermissionError"
    THEN [handler_calls |-> 0,
          responses |-> <<[title |-> title, description |-> pred.message,
                           ephemeral |-> TRUE]>>,
          raised |-> "none"]
    ELSE IF pred.raised # "none"
    THEN [handler_calls |-> 0, responses |-> <<>>, raised |-> pred.raised]
    ELSE IF handler = "returns"
    THEN [handler_calls |-> 1,
          responses |-> <<[title |-> "result", description |-> "",
                           ephemeral |-> FALSE]>>,
          raised |-> "none"]
    ELSE IF handler = "PermissionError"
    THEN [handler_calls |-> 1,
          responses |-> <<[title |-> title, description |-> "",
                           ephemeral |-> TRUE]>>,
          raised |-> "none"]
    ELSE [handler_calls |-> 1, responses |-> <<>>, raised |-> handler]

\* guild_only's wrapper: no try, so whatever func raises leaves the wrapper
guild_only_wrapper(interaction, handler) ==
    IF ~interaction.guild
    THEN [handler_calls |-> 0,
          responses |-> <<[title |-> "Server Only",
                           description |->
                    "This command can only be used in a server, not in DMs.",
                           ephemeral |-> TRUE]>>,
          raised |-> "none"]
    ELSE IF handler = "returns"
    THEN [handler_calls |-> 1,
          responses |-> <<[title |-> "result", description |-> "",
                           ephemeral |-> FALSE]>>,
          raised |-> "none"]
    ELSE [handler_calls |-> 1, responses |-> <<>>, raised |-> handler]

\* a command decorated with @has_permissions(**perms) is invoked
HasPermissions(perms, interaction, handler) ==
    /\ cmd' = [guard |-> "has_permissions", perms |-> perms,
               interaction |-> interaction, app_info |-> NoAppInfo,
               handler |-> handler, on_error |-> NoErrorHandling,
               result |-> wrapper(has_permissions_predicate(perms,
                                      interaction),
                                  "Permission Denied", handler)]
    /\ UNCHANGED <<storeVars, ret, dispatch, ingest, bot, config>>

\* a command decorated with @is_owner() is invoked
IsOwner(interaction, app_info, handler) ==
    /\ cmd' = [guard |-> "is_owner", perms |-> NoPerms,
               interaction |-> interaction, app_info |-> app_info,
               handler |-> handler, on_error |-> NoErrorHandling,
               result |-> wrapper(is_owner_predicate(interaction, app_info),
                                  "Access Denied", handler)]
    /\ UNCHANGED <<storeVars, ret, dispatch, ingest, bot, config>>

\* a command decorated with @guild_only() is invoked
GuildOnly(interaction, handler) ==
    /\ cmd' = [guard |-> "guild_only", perms |-> NoPerms,
               interaction |-> interaction, app_info |-> NoAppInfo,
               handler |-> handler, on_error |-> NoErrorHandling,
               result |-> guild_only_wrapper(interaction, handler)]
    /\ UNCHANGED <<storeVars, ret, dispatch, ingest, bot, config>>

\* ------------------------------------------------------------------------
\* GitHubBot.setup_hook (core/bot.py)
\* ------------------------------------------------------------------------
\* self.initial_extensions, in list order
initial_extensions == <<"bot.commands.help", "bot.commands.github",
                        "bot.commands.admin">>

\* what load_extension(extension) comes to
LoadOutcomes == {"loaded", "ExtensionNotFound", "ExtensionFailed"}

\* what self.tree.sync() comes to
SyncOutcomes == {"synced", "HTTPException"}

\* discord.py calls setup_hook once, before the gateway connection
SetupHook ==
    /\ bot.setup.state = "idle"
    /\ bot' = [bot EXCEPT !.setup.state = "loading"]
    /\ UNCHANGED <<storeVars, ret, dispatch, ingest, config, cmd>>

LoadExtensionAbort(outcome) ==
    /\ bot.setup.state = "loading"
    /\ Len(bot.setup.attempted) < Len(initial_extensions)
    /\ LET n == Len(bot.setup.attempted) + 1
       IN bot' = [bot EXCEPT
              !.setup.attempted = Append(bot.setup.attempted,
                                         initial_extensions[n]),
              !.setup.outcomes = Append(bot.setup.outcomes, outcome),
              !.setup.raised = IF outcome = "loaded" THEN "none"
                               ELSE outcome,
              !.setup.state = IF outcome # "loaded" THEN "done"
                              ELSE IF n = Len(initial_extensions)
                              THEN "loaded" ELSE "loading"]
    /\ UNCHANGED <<storeVars, ret, dispatch, ingest, config, cmd>>

\* one pass of the for loop: try: await self.load_extension(extension)
\* except Exception: log
LoadExtension(outcome) ==
    /\ bot.setup.state = "loading"
    /\ Len(bot.setup.attempted) < Len(initial_extensions)
    /\ LET n == Len(bot.setup.attempted) + 1
       IN bot' = [bot EXCEPT
              !.setup.attempted = Append(bot.setup.attempted,
                                         initial_extensions[n]),
              !.setup.outcomes = Append(bot.setup.outcomes, outcome),
              !.setup.state = IF n = Len(initial_extensions)
                              THEN "loaded" ELSE "loading"]
    /\ UNCHANGED <<storeVars, ret, dispatch, ingest, config, cmd>>

\* if self.config.sync_commands_on_ready: try: await self.tree.sync()
\* except Exception: log; then setup_hook returns
SyncCommands(outcome) ==
    /\ bot.setup.state = "loaded"
    /\ bot' = [bot EXCEPT
           !.setup.sync = IF config.value.sync_commands_on_ready
                          THEN outcome ELSE "none",
           !.setup.state = "done"]
    /\ UNCHANGED <<storeVars, ret, dispatch, ingest, config, cmd>>

\* ------------------------------------------------------------------------
\* GitHubBot.on_app_command_error (core/bot.py)
\* ------------------------------------------------------------------------
\* what the send of the error embed comes to
SendOutcomes == {"sent", "HTTPException", "InteractionResponded"}

OnAppCommandErrorInitialOnly(is_done, outcome) ==
    /\ cmd.guard # "none"
    /\ cmd.result.raised # "none"
    /\ ~cmd.on_error.handled
    /\ cmd' = [cmd EXCEPT !.on_error =
           [handled |-> TRUE, is_done |-> is_done, followups |-> 0,
            responses |-> 1, outcome |-> outcome,
            raised |-> IF outcome = "sent" THEN "none" ELSE outcome]]
    /\ UNCHANGED <<storeVars, ret, dispatch, ingest, bot, config>>

\* on_app_command_error, called by the command tree with the exception that
\* left a command: try: if interaction.response.is_done():
\* followup.send(embed, ephemeral) else: response.send_message(embed,
\* ephemeral); except Exception: log.  is_done says whether the command had
\* responded or deferred before it raised
OnAppCommandError(is_done, outcome) ==
    /\ cmd.guard # "none"
    /\ cmd.result.raised # "none"
    /\ ~cmd.on_error.handled
    /\ cmd' = [cmd EXCEPT !.on_error =
           [handled |-> TRUE, is_done |-> is_done,
            followups |-> IF is_done THEN 1 ELSE 0,
            responses |-> IF is_done THEN 0 ELSE 1,
            outcome |-> outcome, raised |-> "none"]]
    /\ UNCHANGED <<storeVars, ret, dispatch, ingest, bot, config>>

\* ------------------------------------------------------------------------
\* Specifications
\* ------------------------------------------------------------------------
NoRet == [op |-> "none", error |-> "none"]

ZeroSeq == [repositories |-> 0, subscriptions |-> 0, event_logs |-> 0]

\* The store after Database.connect on a fresh file: the schema, no rows
Init ==
    /\ guilds = <<>>
    /\ repositories = <<>>
    /\ subscriptions = <<>>
    /\ event_logs = <<>>
    /\ seq = ZeroSeq
    /\ last_insert_rowid = 0
    /\ ret = NoRet
    /\ dispatch = [d \in Dispatches |-> IdleDispatch]
    /\ AppIdle

Next ==
    \/ \E o \in Owners, n \in RepoNames, u \in Urls : RepositoryCreate(o, n, u)
    \/ \E t \in StoreTriples, e \in EnabledEvents :
           SubscriptionCreate(t[1], t[2], t[3], e, TRUE)
    \/ \E i \in 1..MaxSubRows : SubscriptionDelete(i)
    \/ \E o \in Owners, n \in RepoNames, k \in Kinds : MatchingLookup(o, n, k)

Spec == Init /\ [][Next]_vars

PriorRecord == [event_id |-> 1, event_type |-> "pull_request",
                repository_id |-> 1, guild_id |-> 1, channel_id |-> "C",
                payload_hash |-> "h1", success |-> TRUE,
                error_message |-> "None"]

SubRow(i, channel_id, enabled_events, is_active) ==
    [id |-> i, guild_id |-> 1, repository_id |-> 1, channel_id |-> channel_id,
     enabled_events |-> enabled_events, is_active |-> is_active]

\* the webhook events one dispatch is explored with
DispatchEvents ==
    {[kind |-> "pull_request", owner |-> "acme", name |-> "widgets",
      hash |-> "h1"],
     [kind |-> "push", owner |-> "acme", name |-> "widgets", hash |-> "h1"],
     [kind |-> "unhandled", owner |-> "acme", name |-> "widgets",
      hash |-> "h1"],
     [kind |-> "push", owner |-> "acme", name |-> "gadgets", hash |-> "h1"]}

\* A store in which guild 1 has subscribed channels A, B and C to
\* acme/widgets: A for both kinds, B for one or both, C active or
\* unsubscribed; event h1 may already have been delivered to C
InitDispatch ==
    /\ guilds = <<[guild_id |-> 1, name |-> "g1", created_at |-> 1,
                   updated_at |-> None]>>
    /\ repositories = <<[id |-> 1, owner |-> "acme", name |-> "widgets",
                         url |-> "u1"]>>
    /\ \E e \in EnabledEvents, a \in BOOLEAN :
          subscriptions = <<SubRow(1, "A", <<"pull_request", "push">>, TRUE),
                            SubRow(2, "B", e, TRUE),
                            SubRow(3, "C", <<"pull_request", "push">>, a)>>
    /\ \E prior \in BOOLEAN :
          /\ event_logs = IF prior THEN <<PriorRecord>> ELSE <<>>
          /\ seq = [repositories |-> 1, subscriptions |-> 3,
                    event_logs |-> IF prior THEN 1 ELSE 0]
          /\ last_insert_rowid = IF prior THEN 1 ELSE 3
    /\ ret = NoRet
    /\ dispatch = [d \in Dispatches |-> IdleDispatch]
    /\ AppIdle

\* the steps the event loop runs for dispatch d once it has started, the
\* sink answering with one of outs
DispatchStepsWith(d, outs) ==
    \/ \E s \in 1..Len(dispatch[d].task) : Acquire(d, s)
    \/ \E s \in 1..Len(dispatch[d].task) : DedupCheck(d, s)
    \/ \E s \in 1..Len(dispatch[d].task), o \in outs : Send(d, s, o)
    \/ \E s \in 1..Len(dispatch[d].task) : Record(d, s)
    \/ Finish(d)

DispatchSteps(d) == DispatchStepsWith(d, Outcomes)

\* one webhook request
NextDispatch ==
    \/ \E ev \in DispatchEvents : StartDispatch(1, ev, FALSE)
    \/ DispatchSteps(1)

SpecDispatch == InitDispatch /\ [][NextDispatch]_vars

\* One webhook request for a pull_request event of acme/widgets, to which
\* channels A, B and C are subscribed; h1 may already have reached C
InitFanOut ==
    /\ guilds = <<[guild_id |-> 1, name |-> "g1", created_at |-> 1,
                   updated_at |-> None]>>
    /\ repositories = <<[id |-> 1, owner |-> "acme", name |-> "widgets",
                         url |-> "u1"]>>
    /\ subscriptions = <<SubRow(1, "A", <<"pull_request", "push">>, TRUE),
                         SubRow(2, "B", <<"pull_request">>, TRUE),
                         SubRow(3, "C", <<"pull_request", "push">>, TRUE)>>
    /\ \E prior \in BOOLEAN :
          /\ event_logs = IF prior THEN <<PriorRecord>> ELSE <<>>
          /\ seq = [repositories |-> 1, subscriptions |-> 3,
                    event_logs |-> IF prior THEN 1 ELSE 0]
          /\ last_insert_rowid = IF prior THEN 1 ELSE 3
    /\ ret = NoRet
    /\ dispatch = [d \in Dispatches |-> IdleDispatch]
    /\ AppIdle

FanOutOutcomes == {"success", "transport_error", "rate_limited"}

NextFanOut ==
    \/ StartDispatch(1, [kind |-> "pull_request", owner |-> "acme",
                         name |-> "widgets", hash |-> "h1"], FALSE)
    \/ DispatchStepsWith(1, FanOutOutcomes)

\* The event loop keeps running ready tasks, and every sink call returns
\* (the per-attempt timeout cancels one that does not)
FairSpecFanOut ==
    /\ InitFanOut
    /\ [][NextFanOut]_vars
    /\ WF_vars(DispatchStepsWith(1, FanOutOutcomes))

\* the webhook events redelivery is explored with
RedeliveryEvents ==
    {[kind |-> "pull_request", owner |-> "acme", name |-> "widgets",
      hash |-> "h1"],
     [kind |-> "pull_request", owner |-> "acme", name |-> "widgets",
      hash |-> "h2"]}

\* A store in which guild 1 has subscribed channel A to acme/widgets; event
\* h1 may already have been delivered to another channel
InitRedelivery ==
    /\ guilds = <<[guild_id |-> 1, name |-> "g1", created_at |-> 1,
                   updated_at |-> None]>>
    /\ repositories = <<[id |-> 1, owner |-> "acme", name |-> "widgets",
                         url |-> "u1"]>>
    /\ subscriptions = <<SubRow(1, "A", <<"pull_request", "push">>, TRUE)>>
    /\ \E prior \in BOOLEAN :
          /\ event_logs = IF prior THEN <<PriorRecord>> ELSE <<>>
          /\ seq = [repositories |-> 1, subscriptions |-> 1,
                    event_logs |-> IF prior THEN 1 ELSE 0]
          /\ last_insert_rowid = 1
    /\ ret = NoRet
    /\ dispatch = [d \in Dispatches |-> IdleDispatch]
    /\ AppIdle

\* webhook requests handled one after the other
NextRedelivery ==
    \/ \E d \in Dispatches, ev \in RedeliveryEvents :
           StartDispatch(d, ev, FALSE)
    \/ \E d \in Dispatches : DispatchSteps(d)

SpecRedelivery == InitRedelivery /\ [][NextRedelivery]_vars

\* two webhook requests, the second of which may arrive while the first is
\* still being dispatched (a source-side redelivery)
NextConcurrent ==
    \/ \E d \in {1, 2}, ev \in RedeliveryEvents : StartDispatch(d, ev, TRUE)
    \/ \E d \in {1, 2} : DispatchSteps(d)

SpecConcurrent == InitRedelivery /\ [][NextConcurrent]_vars

\* ------------------------------------------------------------------------
\* Properties of the store (specification Spec)
\* ------------------------------------------------------------------------
\* indexes of the subscription rows of a (guild, repository, channel) triple
TripleRows(table, t) ==
    {i \in 1..Len(table) : /\ table[i].guild_id = t[1]
                           /\ table[i].repository_id = t[2]
                           /\ table[i].channel_id = t[3]}

ActiveTripleRows(table, t) ==
    {i \in TripleRows(table, t) : table[i].is_active}

\* C3: a second subscribe for a triple that already has an active
\* subscription, with a different enabled-event list, completes without
\* error and leaves exactly one active row for the triple, holding the
\* enabled-event list of the most recent request.
C3_SubscriptionUpsert ==
    [][\A t \in StoreTriples, e \in EnabledEvents :
          (/\ SubscriptionCreate(t[1], t[2], t[3], e, TRUE)
           /\ \E i \in ActiveTripleRows(subscriptions, t) :
                  subscriptions[i].enabled_events # e)
          => /\ ret'.error = "none"
             /\ Cardinality(ActiveTripleRows(subscriptions', t)) = 1
             /\ \A i \in ActiveTripleRows(subscriptions', t) :
                    subscriptions'[i].enabled_events = e]_vars

\* C4: at most one active subscription row per (guild, repository, channel)
\* triple, in every state reachable by creates and deletes.
C4_OneActivePerTriple ==
    \A g \in GuildIds, r \in RepoIds, c \in Channels :
        Cardinality(ActiveTripleRows(subscriptions, <<g, r, c>>)) <= 1

\* a subscribe for a triple that already has an active row was rejected
C4_Witness ==
    /\ ret.op = "subscription_create"
    /\ ret.error = "IntegrityError"
    /\ ActiveTripleRows(subscriptions,
           <<ret.guild_id, ret.repository_id, ret.channel_id>>) # {}
    /\ \E i \in 1..Len(subscriptions) : ~subscriptions[i].is_active

RepoRows(table, owner, name) ==
    {i \in 1..Len(table) : table[i].owner = owner /\ table[i].name = name}

\* C5: RepositoryRepository.create for an (owner, name) that already exists
\* raises nothing, adds no row and returns the pre-existing id; there is
\* exactly one row per created (owner, name), rows and their ids never
\* change, and create always returns the id of that one row.
C5_RepositoryUpsert ==
    /\ [](\A o \in Owners, n \in RepoNames :
              Cardinality(RepoRows(repositories, o, n)) <= 1)
    /\ [](ret.op = "repository_create"
              => /\ ret.error = "none"
                 /\ \E i \in RepoRows(repositories, ret.owner, ret.name) :
                        repositories[i].id = ret.id)
    /\ [][/\ Len(repositories') >= Len(repositories)
          /\ \A i \in 1..Len(repositories) : repositories'[i] = repositories[i]
          /\ \A o \in Owners, n \in RepoNames, u \in Urls :
                (RepositoryCreate(o, n, u) /\ RepoRows(repositories, o, n) # {})
                => /\ repositories' = repositories
                   /\ \E i \in RepoRows(repositories, o, n) :
                          ret'.id = repositories[i].id]_vars

\* create was called for a repository that existed: it returned the id of
\* the older row, not the id of the last insert, and left the stored url
C5_Witness ==
    /\ ret.op = "repository_create"
    /\ Len(repositories) = 2
    /\ ret.id = 1
    /\ last_insert_rowid = 2
    /\ repositories[1].url # ret.url

\* C6: the lookup for (repository, kind) returns exactly the subscriptions
\* of that repository that are active and whose enabled-event list holds
\* the kind, each once.
C6_MatchingExact ==
    ret.op = "matching"
    => /\ Range(ret.result) =
              {row \in Range(subscriptions) :
                   /\ row.is_active
                   /\ \E j \in 1..Len(row.enabled_events) :
                          row.enabled_events[j] = ret.kind
                   /\ \E i \in RepoRows(repositories, ret.owner, ret.name) :
                          repositories[i].id = row.repository_id}
       /\ Cardinality(Range(ret.result)) = Len(ret.result)

\* a lookup that returned one subscription and left out an unsubscribed
\* one of the same repository and an active one of another repository,
\* both enabled for the kind
C6_Witness ==
    /\ ret.op = "matching"
    /\ Len(ret.result) = 1
    /\ \E i, k \in 1..Len(subscriptions) :
           /\ subscriptions[i].repository_id = ret.result[1].repository_id
           /\ ~subscriptions[i].is_active
           /\ \E j \in 1..Len(subscriptions[i].enabled_events) :
                  subscriptions[i].enabled_events[j] = ret.kind
           /\ subscriptions[k].repository_id # ret.result[1].repository_id
           /\ subscriptions[k].is_active
           /\ \E j \in 1..Len(subscriptions[k].enabled_events) :
                  subscriptions[k].enabled_events[j] = ret.kind

\* ------------------------------------------------------------------------
\* Properties of the dispatcher
\* ------------------------------------------------------------------------
Tasks(d) == 1..Len(dispatch[d].task)

\* the subscription rows an event must fan out to, read off the tables
MatchingRows(ev) ==
    {row \in Range(subscriptions) :
         /\ row.is_active
         /\ \E j \in 1..Len(row.enabled_events) : row.enabled_events[j] = ev.kind
         /\ \E i \in RepoRows(repositories, ev.owner, ev.name) :
                repositories[i].id = row.repository_id}

\* the records of successful deliveries of hash h to channel c
SuccessRows(h, c) ==
    {i \in 1..Len(event_logs) : /\ event_logs[i].payload_hash = h
                                /\ event_logs[i].channel_id = c
                                /\ event_logs[i].success}

\* attempt k of task s of dispatch d has its own DeliveryRecord, with the
\* channel, the hash and the success flag of that attempt
AttemptLogged(d, s, k) ==
    /\ k <= Len(dispatch[d].logged[s])
    /\ \E i \in 1..Len(event_logs) :
           /\ event_logs[i].event_id = dispatch[d].logged[s][k]
           /\ event_logs[i].channel_id = dispatch[d].subs[s].channel_id
           /\ event_logs[i].guild_id = dispatch[d].subs[s].guild_id
           /\ event_logs[i].payload_hash = dispatch[d].event.hash
           /\ event_logs[i].success = (dispatch[d].outcomes[s][k] = "success")
    /\ \A t \in Tasks(d) : \A j \in 1..Len(dispatch[d].logged[t]) :
           dispatch[d].logged[t][j] = dispatch[d].logged[s][k]
           => (t = s /\ j = k)

\* destination row was served by dispatch d: skipped because a successful
\* delivery was on record, or sent to, every attempt being on record
Served(d, row) ==
    \E s \in Tasks(d) :
        /\ dispatch[d].subs[s] = row
        /\ dispatch[d].task[s] = "done"
        /\ IF dispatch[d].outcomes[s] = <<>>
           THEN SuccessRows(dispatch[d].event.hash, row.channel_id) # {}
           ELSE \A k \in 1..Len(dispatch[d].outcomes[s]) :
                    AttemptLogged(d, s, k)

\* three destinations, exactly one of which failed with PermissionDenied
OneDeniedOfThree(d) ==
    /\ Len(dispatch[d].task) = 3
    /\ \E f \in Tasks(d) :
           /\ dispatch[d].outcomes[f] = <<"permission_denied">>
           /\ \A s \in Tasks(d) \ {f} : dispatch[d].outcomes[s] = <<"success">>

\* C1: whatever the sink answers, a failure at one destination does not keep
\* any other matching destination from being sent to and recorded (every
\* unfinished delivery can take its next step whatever state the others are
\* in, a queued one as soon as a slot is free); with 3 destinations of which exactly one is denied,
\* the other two have a success record and the summary is delivered=2,
\* failed=1.
C1_FaultIsolation ==
    /\ (dispatch[1].state = "done"
            => /\ \A row \in MatchingRows(dispatch[1].event) : Served(1, row)
               /\ OneDeniedOfThree(1)
                  => /\ dispatch[1].summary =
                            [delivered |-> 2, failed |-> 1, skipped |-> 0]
                     /\ \A s \in Tasks(1) :
                            dispatch[1].outcomes[s] = <<"success">>
                            => SuccessRows(dispatch[1].event.hash,
                                   dispatch[1].subs[s].channel_id) # {})
    /\ (dispatch[1].state = "running"
            => \A s \in Tasks(1) :
                   \/ dispatch[1].task[s] = "done"
                   \/ dispatch[1].task[s] = "queued"
                        /\ \/ ENABLED Acquire(1, s)
                           \/ \E t \in Tasks(1) : 
                                  dispatch[1].task[t] \in InFlightStates
                   \/ dispatch[1].task[s] = "check" /\ ENABLED DedupCheck(1, s)
                   \/ dispatch[1].task[s] \in {"send", "backoff"}
                        /\ ENABLED Send(1, s, "success")
                   \/ dispatch[1].task[s] = "record" /\ ENABLED Record(1, s))

C1_Witness ==
    /\ dispatch[1].state = "done"
    /\ OneDeniedOfThree(1)
    /\ dispatch[1].outcomes[1] = <<"permission_denied">>

\* C7: a rate-limited first attempt is sent again exactly once and is final
\* after that; an attempt that failed for any other reason, or succeeded, is
\* never sent again.  No destination sees more than 2 attempts, and 2 only
\* after a rate-limited first one.
C7_RetryPolicy ==
    \A d \in Dispatches : \A s \in Tasks(d) :
        LET outs == dispatch[d].outcomes[s]
        IN /\ Len(outs) <= 2
           /\ Len(outs) = 2 => outs[1] = "rate_limited"
           /\ dispatch[d].task[s] = "backoff" => outs = <<"rate_limited">>
           /\ (dispatch[d].task[s] = "done" /\ outs # <<>>
                   /\ outs[1] = "rate_limited") => Len(outs) = 2

\* one destination was rate-limited twice, another timed out once
C7_Witness ==
    /\ dispatch[1].state = "done"
    /\ \E s, t \in Tasks(1) :
           /\ dispatch[1].outcomes[s] = <<"rate_limited", "rate_limited">>
           /\ dispatch[1].outcomes[t] = <<"timeout">>

\* C8: the deliveries in flight never exceed the concurrent-delivery limit;
\* destinations beyond the limit wait and are still handled, and the
\* dispatch terminates with every matching subscription handled.
C8_BoundedFanOut ==
    /\ [](\A d \in Dispatches : InFlight(d) <= MaxConcurrent)
    /\ [](dispatch[1].state = "done"
            => /\ Cardinality(MatchingRows(dispatch[1].event))
                      = Len(dispatch[1].task)
               /\ \A row \in MatchingRows(dispatch[1].event) :
                      \E s \in Tasks(1) : /\ dispatch[1].subs[s] = row
                                          /\ dispatch[1].task[s] = "done"
               /\ dispatch[1].summary.skipped
                      + Cardinality({s \in Tasks(1) :
                                         dispatch[1].outcomes[s] # <<>>})
                  = IF dispatch[1].task = <<>> THEN 1
                    ELSE Len(dispatch[1].task))
    /\ (dispatch[1].state = "running" ~> dispatch[1].state = "done")

\* the pool is full and a third destination is waiting for a slot
C8_Witness ==
    /\ dispatch[1].state = "running"
    /\ InFlight(1) = MaxConcurrent
    /\ \E s \in Tasks(1) : dispatch[1].task[s] = "queued"

\* the event_ids dispatch d has written
LoggedIds(d) ==
    UNION {Range(dispatch[d].logged[s]) : s \in Tasks(d)}

LoggedRows(d, ok) ==
    {i \in 1..Len(event_logs) : /\ event_logs[i].event_id \in LoggedIds(d)
                                /\ event_logs[i].success = ok}

\* C10: every send attempt is followed by the write of a DeliveryRecord for
\* that event and channel whose success flag is the attempt's outcome (the
\* write is the delivery's next step and nothing can block it); when
\* the dispatch returns, delivered and failed are the numbers of success
\* and failure records it wrote.
C10_Observable ==
    /\ (\A s \in Tasks(1) :
            LET n == Len(dispatch[1].outcomes[s])
            IN /\ Len(dispatch[1].logged[s])
                      = IF dispatch[1].task[s] = "record" THEN n - 1 ELSE n
               /\ \A k \in 1..Len(dispatch[1].logged[s]) :
                      AttemptLogged(1, s, k))
    /\ (dispatch[1].state = "done"
            => /\ dispatch[1].summary.delivered
                      = Cardinality(LoggedRows(1, TRUE))
               /\ dispatch[1].summary.failed
                      = Cardinality(LoggedRows(1, FALSE))
               /\ ret.op = "dispatch" /\ ret.summary = dispatch[1].summary)
    /\ (\A s \in Tasks(1) :
              dispatch[1].task[s] = "record" => ENABLED Record(1, s))

\* a dispatch returned after writing both a success and a failure record
C10_Witness ==
    /\ dispatch[1].state = "done"
    /\ LoggedRows(1, TRUE) # {}
    /\ LoggedRows(1, FALSE) # {}
    /\ dispatch[1].summary.failed = 2

\* ------------------------------------------------------------------------
\* Redelivery of an event
\* ------------------------------------------------------------------------
\* dispatch d has sent event h to channel c and the sink accepted it
Delivered(d, h, c) ==
    /\ dispatch[d].event.hash = h
    /\ \E s \in Tasks(d) :
           /\ dispatch[d].subs[s].channel_id = c
           /\ dispatch[d].task[s] = "done"
           /\ \E k \in 1..Len(dispatch[d].outcomes[s]) :
                  dispatch[d].outcomes[s][k] = "success"

\* dispatch d went past channel c without a send, counting it as skipped
SkippedOnly(d, c) ==
    /\ \A s \in Tasks(d) :
           dispatch[d].subs[s].channel_id = c
           => /\ dispatch[d].outcomes[s] = <<>>
              /\ dispatch[d].logged[s] = <<>>
    /\ dispatch[d].summary.skipped
           = Cardinality({s \in Tasks(d) : dispatch[d].outcomes[s] = <<>>})
    /\ dispatch[d].summary.skipped >= 1
    /\ dispatch[d].summary.failed
           = Cardinality(LoggedRows(d, FALSE))

SubscribedChannels == {subscriptions[i].channel_id : i \in 1..Len(subscriptions)}

\* C2: when an event that was delivered to a channel is dispatched again
\* after the first dispatch has returned, the (dedup hash, channel) pair
\* keeps exactly one success record, and the second dispatch sends nothing
\* to that channel and counts it as skipped, not failed.
C2_DedupIdempotence ==
    /\ \A h \in Hashes, c \in SubscribedChannels :
           Cardinality(SuccessRows(h, c)) <= 1
    /\ \A d1, d2 \in Dispatches, c \in SubscribedChannels :
           (/\ d1 < d2
            /\ dispatch[d2].state = "done"
            /\ Delivered(d1, dispatch[d2].event.hash, c))
           => /\ Cardinality(SuccessRows(dispatch[d2].event.hash, c)) = 1
              /\ SkippedOnly(d2, c)

\* h1 was delivered to A at the second attempt, then dispatched again
C2_Witness ==
    /\ dispatch[1].state = "done" /\ dispatch[2].state = "done"
    /\ dispatch[1].event.hash = dispatch[2].event.hash
    /\ dispatch[1].outcomes = << <<"rate_limited", "success">> >>
    /\ dispatch[2].summary = [delivered |-> 0, failed |-> 0, skipped |-> 1]

\* C9 (as claimed): of two concurrent dispatches of the same dedup hash at
\* most one sends to a given channel, so no (dedup hash, channel) pair ends
\* with two success records.
C9_NoDoubleFanOut ==
    /\ \A h \in Hashes, c \in SubscribedChannels :
           Cardinality(SuccessRows(h, c)) <= 1
    /\ \A s \in Tasks(1), t \in Tasks(2) :
           (/\ dispatch[1].event.hash = dispatch[2].event.hash
            /\ dispatch[1].subs[s].channel_id = dispatch[2].subs[t].channel_id)
           => \/ dispatch[1].outcomes[s] = <<>>
              \/ dispatch[2].outcomes[t] = <<>>

\* C9 (amended): a dispatch sends to a channel only after its own dedup
\* check found no success record for (dedup hash, channel); a dispatch
\* whose check runs once a success is on record skips the channel without
\* a send.  Each dispatch adds at most one success record per channel, so
\* a pair has at most one success record per dispatch of that hash.
C9_GuardedSend ==
    /\ [](\A h \in Hashes, c \in SubscribedChannels :
              Cardinality(SuccessRows(h, c))
                  <= Cardinality({d \in Dispatches : Delivered(d, h, c)}))
    /\ [][\A d \in Dispatches : \A s \in Tasks(d) :
            LET c == dispatch[d].subs[s].channel_id
                h == dispatch[d].event.hash
            IN /\ (dispatch[d].task[s] = "check"
                       /\ dispatch'[d].task[s] # "check")
                  => IF SuccessRows(h, c) # {}
                     THEN /\ dispatch'[d].task[s] = "done"
                          /\ dispatch'[d].outcomes[s] = <<>>
                          /\ dispatch'[d].summary.skipped
                                 = dispatch[d].summary.skipped + 1
                     ELSE dispatch'[d].task[s] = "send"
               /\ dispatch'[d].outcomes[s] # dispatch[d].outcomes[s]
                  => dispatch[d].task[s] \in {"send", "backoff"}
               /\ dispatch'[d].task[s] = "send"
                  => dispatch[d].task[s] \in {"check", "send"}
               /\ dispatch[d].task[s] = "done"
                  => dispatch'[d].task[s] = "done"]_vars

\* the second request arrived while the first was being dispatched, found
\* the first one's success record and skipped the channel
C9_Witness ==
    /\ dispatch[1].state = "running"
    /\ dispatch[1].outcomes = << <<"success">> >>
    /\ dispatch[2].event = dispatch[1].event
    /\ dispatch[2].task = <<"done">>
    /\ dispatch[2].outcomes = << <<>> >>
    /\ dispatch[2].summary.skipped = 1

\* ------------------------------------------------------------------------
\* The ingestion endpoint in front of the dispatcher
\* ------------------------------------------------------------------------
\* A store in which guild 1 has subscribed channel A to acme/widgets, and a
\* configuration whose webhook secret is s1 or, BotConfig being a plain
\* dataclass that can be built directly, empty
InitIngest ==
    /\ guilds = <<[guild_id |-> 1, name |-> "g1", created_at |-> 1,
                   updated_at |-> None]>>
    /\ repositories = <<[id |-> 1, owner |-> "acme", name |-> "widgets",
                         url |-> "u1"]>>
    /\ subscriptions = <<SubRow(1, "A", <<"pull_request", "push">>, TRUE)>>
    /\ event_logs = <<>>
    /\ seq = [repositories |-> 1, subscriptions |-> 1, event_logs |-> 0]
    /\ last_insert_rowid = 1
    /\ ret = NoRet
    /\ dispatch = [d \in Dispatches |-> IdleDispatch]
    /\ ingest = [d \in Dispatches |-> NoRequest]
    /\ bot = GitHubBot
    /\ \E s \in {"", "s1"} :
          config = [NoConfig EXCEPT !.called = TRUE,
                        !.value = [NoBotConfig EXCEPT !.webhook_secret = s]]
    /\ cmd = NoCall

IngestOutcomes == {"success", "transport_error"}

\* two webhook requests, each verified and normalized on arrival and, if
\* accepted, fanned out
NextIngest ==
    \/ \E d \in {1, 2}, req \in Requests : HandleWebhook(d, req)
    \/ \E d \in {1, 2} : DispatchAccepted(d)
    \/ \E d \in {1, 2} : DispatchStepsWith(d, IngestOutcomes)

SpecIngest == InitIngest /\ [][NextIngest]_vars

\* the four ways a signature fails, read off the request
SignatureFails(req, secret) ==
    \/ ~req.signature.present
    \/ req.signature.scheme # "sha256"
    \/ req.signature.digest.key # secret
    \/ req.signature.digest.msg # req.body
    \/ secret = ""

\* C11: a request whose signature fails (header missing or malformed,
\* digest mismatched, secret empty) is answered 401 by a step that writes
\* nothing to the store and starts nothing, and from then on its body is
\* never parsed and no lookup, send or record is ever made for it
C11_RejectedUntouched ==
    /\ [](\A d \in Dispatches :
             ingest[d].status = 401 =>
                 /\ ~ingest[d].parsed
                 /\ ingest[d].event = NoEvent
                 /\ dispatch[d] = IdleDispatch)
    /\ [][\A d \in Dispatches, req \in Requests :
             HandleWebhook(d, req)
                 /\ SignatureFails(req, config.value.webhook_secret)
             => /\ ingest'[d].status = 401
                /\ UNCHANGED <<storeVars, dispatch>>]_vars

\* a rejected request next to one that was accepted and delivered
C11_Witness ==
    /\ ingest[1].status = 401
    /\ ingest[2].status = 200
    /\ dispatch[2].state = "done"
    /\ dispatch[2].summary.delivered = 1

\* the ways normalization fails, read off the request
NormalizationFails(req) ==
    \/ req.event_type \notin {"pull_request", "push", "ping"}
    \/ ~req.body.json
    \/ req.body.owner = "none"
    \/ req.body.name = "none"

\* C12: a request that passes verification but fails normalization (unknown
\* kind, or the repository missing) ends at the endpoint with that error:
\* the step writes nothing and starts nothing, no lookup, send or record is
\* ever made for it, and a request the endpoint has answered is never
\* taken up again
C12_DroppedUnserved ==
    /\ [](\A d \in Dispatches :
             ingest[d].error \in {"UnknownKind", "MalformedPayload"} =>
                 /\ ingest[d].event = NoEvent
                 /\ dispatch[d] = IdleDispatch)
    /\ [][\A d \in Dispatches, req \in Requests :
             HandleWebhook(d, req)
                 /\ ~SignatureFails(req, config.value.webhook_secret)
                 /\ NormalizationFails(req)
             => /\ ingest'[d].error \in {"UnknownKind", "MalformedPayload"}
                /\ UNCHANGED <<storeVars, dispatch>>]_vars
    /\ [][\A d \in Dispatches :
             ingest[d].status # 0 => ingest'[d] = ingest[d]]_vars

\* a malformed payload and an unknown kind dropped behind a good signature
C12_Witness ==
    /\ ingest[1].error = "MalformedPayload"
    /\ ingest[1].parsed
    /\ ingest[2].error = "UnknownKind"
    /\ event_logs = <<>>

\* ------------------------------------------------------------------------
\* The kind-filter scenario of the design document (section 8)
\* ------------------------------------------------------------------------
\* acme/widgets with two active subscriptions of guild 1: channel A for
\* pull_request, channel B for push only
InitKindFilter ==
    /\ guilds = <<[guild_id |-> 1, name |-> "g1", created_at |-> 1,
                   updated_at |-> None]>>
    /\ repositories = <<[id |-> 1, owner |-> "acme", name |-> "widgets",
                         url |-> "u1"]>>
    /\ subscriptions = <<SubRow(1, "A", <<"pull_request">>, TRUE),
                         SubRow(2, "B", <<"push">>, TRUE)>>
    /\ event_logs = <<>>
    /\ seq = [repositories |-> 1, subscriptions |-> 2, event_logs |-> 0]
    /\ last_insert_rowid = 2
    /\ ret = NoRet
    /\ dispatch = [d \in Dispatches |-> IdleDispatch]
    /\ AppIdle

\* pull_request webhooks for acme/widgets, handled one after the other
SpecKindFilter == InitKindFilter /\ [][NextRedelivery]_vars

\* a finished dispatch whose one send, to channel A, succeeded at once
SentOnceToA(d) ==
    /\ dispatch[d].state = "done"
    /\ dispatch[d].event.kind = "pull_request"
    /\ Len(dispatch[d].outcomes) = 1
    /\ dispatch[d].outcomes[1] = <<"success">>

OnlyChannelA ==
    /\ \A i \in 1..Len(event_logs) : event_logs[i].channel_id = "A"
    /\ \A d \in Dispatches :
           \A s \in 1..Len(dispatch[d].subs) :
               dispatch[d].subs[s].channel_id = "A"

C14_ResubscribeAfterSoftDelete ==
    [][\A t \in StoreTriples, e \in EnabledEvents :
          (/\ SubscriptionCreate(t[1], t[2], t[3], e, TRUE)
           /\ TripleRows(subscriptions, t) # {}
           /\ ActiveTripleRows(subscriptions, t) = {})
          => /\ ret'.error = "none"
             /\ Cardinality(ActiveTripleRows(subscriptions', t)) = 1]_vars

\* C15: delete(id) keeps every subscription row in place, clears the active
\* flag of the rows whose id is id and changes nothing else in the row, in
\* the other rows or in the other tables; on an id that is already inactive
\* or unknown it changes nothing in the store; and no step of the store ever
\* lowers the number of subscription rows.
C15_SoftDeleteFrame ==
    /\ [][\A id \in 1..MaxSubRows :
             SubscriptionDelete(id) =>
                 /\ Len(subscriptions') = Len(subscriptions)
                 /\ \A j \in 1..Len(subscriptions) :
                        subscriptions'[j] =
                            IF subscriptions[j].id = id
                            THEN [subscriptions[j] EXCEPT !.is_active = FALSE]
                            ELSE subscriptions[j]
                 /\ UNCHANGED <<guilds, repositories, event_logs, seq>>
                 /\ (\A j \in 1..Len(subscriptions) :
                         subscriptions[j].id = id
                             => ~subscriptions[j].is_active)
                        => UNCHANGED storeVars]_vars
    /\ [][Len(subscriptions') >= Len(subscriptions)]_vars

\* one subscription soft-deleted, still in the table, next to an active one
C15_Witness ==
    /\ ret.op = "subscription_delete"
    /\ \E i \in 1..Len(subscriptions) :
           subscriptions[i].id = ret.id /\ ~subscriptions[i].is_active
    /\ \E i \in 1..Len(subscriptions) :
           subscriptions[i].id # ret.id /\ subscriptions[i].is_active

\* ------------------------------------------------------------------------
\* The bot's guild lifecycle over the store
\* ------------------------------------------------------------------------
\* the subscription the lifecycle is explored with
BotTriples == {<<1, 1, "A">>}

\* GitHubBot after __init__, over a fresh store
InitBot ==
    /\ guilds = <<>>
    /\ repositories = <<>>
    /\ subscriptions = <<>>
    /\ event_logs = <<>>
    /\ seq = ZeroSeq
    /\ last_insert_rowid = 0
    /\ ret = NoRet
    /\ dispatch = [d \in Dispatches |-> IdleDispatch]
    /\ AppIdle

NextBot ==
    \/ InjectServices
    \/ \E g \in GuildIds, n \in GuildNames, now \in Times,
          o \in RegisterOutcomes : OnGuildJoin(g, n, now, o)
    \/ \E g \in GuildIds : OnGuildRemove(g)
    \/ \E n \in GuildNames, now \in Times : GuildCreate(1, n, now, now)
    \/ \E t \in BotTriples :
           SubscriptionCreate(t[1], t[2], t[3], <<"pull_request">>, TRUE)
    \/ \E i \in 1..Cardinality(BotTriples) : SubscriptionDelete(i)

SpecBot == InitBot /\ [][NextBot]_vars

GuildRows(table, guild_id) ==
    {i \in 1..Len(table) : table[i].guild_id = guild_id}

\* C17: no step removes a guild row or moves it to another guild, and a
\* step of on_guild_remove leaves the guilds table and the subscriptions
\* table, active flags included, as they were
C17_GuildRowPersists ==
    /\ [][/\ Len(guilds') >= Len(guilds)
          /\ \A i \in 1..Len(guilds) :
                 guilds'[i].guild_id = guilds[i].guild_id]_vars
    /\ [][\A g \in GuildIds :
             OnGuildRemove(g) => UNCHANGED <<guilds, subscriptions>>]_vars

\* the bot was removed from guild 1, whose record and active subscription
\* are still in the store
C17_Witness ==
    /\ 1 \in bot.removed
    /\ GuildRows(guilds, 1) # {}
    /\ \E i \in 1..Len(subscriptions) :
           subscriptions[i].guild_id = 1 /\ subscriptions[i].is_active

NextLog ==
    \/ \E d \in {1, 2}, ev \in RedeliveryEvents : StartDispatch(d, ev, FALSE)
    \/ \E d \in {1, 2} : DispatchStepsWith(d, IngestOutcomes)
    \/ SubscriptionCreate(1, 1, "B", <<"pull_request">>, TRUE)
    \/ SubscriptionDelete(1)
    \/ RepositoryCreate("acme", "widgets", "u1")
    \/ GuildCreate(1, "g2", 1, 2)

SpecLog == InitRedelivery /\ [][NextLog]_vars

\* C16: no step modifies or removes a delivery record (the table after a
\* step starts with the whole table before it), and every call of
\* EventLogRepository.create adds exactly one record, under an event_id no
\* earlier record has
C16_LogAppendOnly ==
    /\ [][/\ Len(event_logs') >= Len(event_logs)
          /\ SubSeq(event_logs', 1, Len(event_logs)) = event_logs]_vars
    /\ [][\A d \in Dispatches :
             \A s \in 1..Len(dispatch[d].task) :
                 Record(d, s) =>
                     /\ Len(event_logs') = Len(event_logs) + 1
                     /\ \A i \in 1..Len(event_logs) :
                            event_logs[i].event_id
                                # event_logs'[Len(event_logs')].event_id]_vars

\* a failed and a successful delivery on record, one after the other, and
\* the subscription soft-deleted since
C16_Witness ==
    /\ \E i, j \in 1..Len(event_logs) :
           i < j /\ ~event_logs[i].success /\ event_logs[j].success
    /\ \E i \in 1..Len(subscriptions) : ~subscriptions[i].is_active
    /\ \E i \in 1..Len(guilds) : guilds[i].updated_at # None

\* ------------------------------------------------------------------------
\* BotConfig.from_env over process environments
\* ------------------------------------------------------------------------
\* what each variable is explored with ("<unset>": the name is not set)
EnvChoices ==
    [DISCORD_BOT_TOKEN : {"<unset>", "", "tok"},
     DISCORD_APPLICATION_ID : {"<unset>", "", "123"},
     GITHUB_WEBHOOK_SECRET : {"<unset>", "", "s1"},
     WEBHOOK_HOST : {"<unset>", "localhost"},
     WEBHOOK_PORT : {"<unset>", "8080", "http"},
     DATABASE_URL : {"<unset>", "sqlite:///x.db"},
     LOG_LEVEL : {"<unset>", ""},
     LOG_FORMAT : {"<unset>", "%(message)s"},
     DEBUG_MODE : {"<unset>", "TRUE", "0"},
     SYNC_COMMANDS_ON_READY : {"<unset>", "False", "true"}]

\* os.environ for a choice: the names that are set, with their text
Environ(choice) ==
    [k \in {n \in DOMAIN choice : choice[n] # "<unset>"} |-> choice[k]]

InitConfig ==
    /\ guilds = <<>>
    /\ repositories = <<>>
    /\ subscriptions = <<>>
    /\ event_logs = <<>>
    /\ seq = ZeroSeq
    /\ last_insert_rowid = 0
    /\ ret = NoRet
    /\ dispatch = [d \in Dispatches |-> IdleDispatch]
    /\ ingest = [d \in Dispatches |-> NoRequest]
    /\ bot = GitHubBot
    /\ \E choice \in EnvChoices :
          config = [NoConfig EXCEPT !.env = Environ(choice)]
    /\ cmd = NoCall

SpecConfig == InitConfig /\ [][FromEnv]_vars

Unset(env, key) == key \notin DOMAIN env

UnsetOrEmpty(env, key) == key \notin DOMAIN env \/ env[key] = ""

\* C19: from_env raises ValueError whenever one of the three required
\* variables, the webhook secret among them, is unset or empty, so a
\* BotConfig it returns holds the non-empty secret of the environment;
\* every other variable that is unset comes back as its default, and an
\* environment with only the required variables set is accepted
C19_RequiredOrDefault ==
    config.called =>
        LET env == config.env
            value == config.value
        IN /\ (\E k \in RequiredNames : UnsetOrEmpty(env, k))
                  => config.error = "ValueError"
           /\ config.error = "none" =>
                  /\ value.webhook_secret = env["GITHUB_WEBHOOK_SECRET"]
                  /\ value.webhook_secret # ""
                  /\ Unset(env, "WEBHOOK_HOST")
                         => value.webhook_host = "0.0.0.0"
                  /\ Unset(env, "WEBHOOK_PORT") => value.webhook_port = 8000
                  /\ Unset(env, "DATABASE_URL")
                         => value.database_url = "sqlite:///data/bot.db"
                  /\ Unset(env, "LOG_LEVEL") => value.log_level = "INFO"
                  /\ Unset(env, "LOG_FORMAT") => value.log_format =
                       "%(asctime)s | %(levelname)-8s | %(name)s | %(message)s"
                  /\ Unset(env, "DEBUG_MODE") => value.debug_mode = FALSE
                  /\ Unset(env, "SYNC_COMMANDS_ON_READY")
                         => value.sync_commands_on_ready = TRUE
           /\ ((\A k \in RequiredNames : ~UnsetOrEmpty(env, k))
                  /\ (\A k \in OptionalNames : Unset(env, k)))
                  => config.error = "none"

\* from_env has refused an environment whose only fault is an empty
\* GITHUB_WEBHOOK_SECRET
C19_Witness ==
    /\ config.called
    /\ ~UnsetOrEmpty(config.env, "DISCORD_BOT_TOKEN")
    /\ ~UnsetOrEmpty(config.env, "DISCORD_APPLICATION_ID")
    /\ ~Unset(config.env, "GITHUB_WEBHOOK_SECRET")
    /\ config.env["GITHUB_WEBHOOK_SECRET"] = ""
    /\ \A k \in OptionalNames : Unset(config.env, k)
    /\ config.error = "ValueError"
    /\ config.message = "GITHUB_WEBHOOK_SECRET is required"

\* ------------------------------------------------------------------------
\* Guarded slash commands
\* ------------------------------------------------------------------------
InitGuards ==
    /\ guilds = <<>>
    /\ repositories = <<>>
    /\ subscriptions = <<>>
    /\ event_logs = <<>>
    /\ seq = ZeroSeq
    /\ last_insert_rowid = 0
    /\ ret = NoRet
    /\ dispatch = [d \in Dispatches |-> IdleDispatch]
    /\ AppIdle

NextGuards ==
    \/ \E perms \in RequiredPerms, i \in Interactions, h \in Handlers :
           HasPermissions(perms, i, h)
    \/ \E i \in Interactions, a \in AppInfos, h \in Handlers :
           IsOwner(i, a, h)
    \/ \E i \in Interactions, h \in Handlers : GuildOnly(i, h)

SpecGuards == InitGuards /\ [][NextGuards]_vars

\* the guard's predicate as the claim words it, read off the invocation
PredicateHolds ==
    CASE cmd.guard = "has_permissions" ->
             /\ cmd.interaction.guild
             /\ cmd.interaction.member
             /\ \A perm \in DOMAIN cmd.perms :
                    /\ perm \in PermissionFlags
                    /\ cmd.interaction.guild_permissions[perm]
                           = cmd.perms[perm]
      [] cmd.guard = "is_owner" ->
             /\ cmd.app_info.fetched
             /\ \/ cmd.interaction.user_id = cmd.app_info.owner_id
                \/ cmd.app_info.team
                       /\ cmd.interaction.user_id \in cmd.app_info.members
      [] cmd.guard = "guild_only" -> cmd.interaction.guild
      [] OTHER -> FALSE

\* the predicate was evaluated and came out false (is_owner's predicate is
\* not evaluated when application_info() raises)
PredicateFails ==
    /\ ~PredicateHolds
    /\ cmd.guard = "is_owner" => cmd.app_info.fetched

\* C20: under each guard the handler is called at most once, and only if
\* the guard's predicate holds; when the predicate fails the handler is
\* not called and exactly one response, an ephemeral error embed, is sent
C20_GuardGatesHandler ==
    cmd.guard # "none" =>
        /\ cmd.result.handler_calls <= 1
        /\ cmd.result.handler_calls = 1 => PredicateHolds
        /\ PredicateFails =>
               /\ cmd.result.handler_calls = 0
               /\ Len(cmd.result.responses) = 1
               /\ cmd.result.responses[1].ephemeral
               /\ cmd.result.responses[1].title
                      \in {"Permission Denied", "Access Denied",
                           "Server Only"}

\* a member in a guild lacked a required flag: denied, handler not called
C20_Witness ==
    /\ cmd.guard = "has_permissions"
    /\ cmd.interaction.guild
    /\ cmd.interaction.member
    /\ ~PredicateHolds
    /\ cmd.result.handler_calls = 0
    /\ Len(cmd.result.responses) = 1
    /\ cmd.result.responses[1].title = "Permission Denied"

\* ------------------------------------------------------------------------
\* Bot startup
\* ------------------------------------------------------------------------
\* a bot constructed under a configuration with either value of
\* sync_commands_on_ready
InitSetup ==
    /\ guilds = <<>>
    /\ repositories = <<>>
    /\ subscriptions = <<>>
    /\ event_logs = <<>>
    /\ seq = ZeroSeq
    /\ last_insert_rowid = 0
    /\ ret = NoRet
    /\ dispatch = [d \in Dispatches |-> IdleDispatch]
    /\ ingest = [d \in Dispatches |-> NoRequest]
    /\ bot = GitHubBot
    /\ \E flag \in BOOLEAN :
          config = [NoConfig EXCEPT !.called = TRUE,
                        !.value = [NoBotConfig EXCEPT
                                       !.sync_commands_on_ready = flag]]
    /\ cmd = NoCall

SetupSteps ==
    \/ SetupHook
    \/ \E o \in LoadOutcomes : LoadExtension(o)
    \/ \E o \in SyncOutcomes : SyncCommands(o)

\* startup, with main.py injecting the services at any point of it
NextSetup ==
    \/ SetupSteps
    \/ InjectServices

SpecSetup == InitSetup /\ [][NextSetup]_vars

\* C21: the extensions attempted so far are the first ones of
\* initial_extensions, each once and in list order, whatever the earlier
\* loads came to; a sync is attempted only after all of them, and by the end
\* exactly if sync_commands_on_ready is set; setup_hook never raises, and
\* until it has returned its next step can always be taken
C21_SetupIsolation ==
    /\ Len(bot.setup.attempted) <= Len(initial_extensions)
    /\ bot.setup.attempted
           = SubSeq(initial_extensions, 1, Len(bot.setup.attempted))
    /\ bot.setup.raised = "none"
    /\ bot.setup.sync # "none" =>
           /\ bot.setup.attempted = initial_extensions
           /\ config.value.sync_commands_on_ready
    /\ bot.setup.state = "done" =>
           /\ bot.setup.attempted = initial_extensions
           /\ config.value.sync_commands_on_ready => bot.setup.sync # "none"
    /\ bot.setup.state \notin {"idle", "done"} => ENABLED SetupSteps

\* setup_hook has returned after the first load and the sync both failed
C21_Witness ==
    /\ bot.setup.state = "done"
    /\ bot.setup.outcomes[1] = "ExtensionNotFound"
    /\ bot.setup.outcomes[3] = "loaded"
    /\ bot.setup.sync = "HTTPException"

\* ------------------------------------------------------------------------
\* The global configuration instance
\* ------------------------------------------------------------------------
\* the environments the global instance is explored with: the token set or
\* not, two secrets, a port and a log level that pass or fail validate
GlobalEnvChoices ==
    [DISCORD_BOT_TOKEN : {"<unset>", "tok"},
     DISCORD_APPLICATION_ID : {"123"},
     GITHUB_WEBHOOK_SECRET : {"s1", "s2"},
     WEBHOOK_HOST : {"<unset>"},
     WEBHOOK_PORT : {"<unset>", "0"},
     DATABASE_URL : {"<unset>"},
     LOG_LEVEL : {"<unset>", ""},
     LOG_FORMAT : {"<unset>"},
     DEBUG_MODE : {"<unset>"},
     SYNC_COMMANDS_ON_READY : {"<unset>"}]

\* module import: _config = None, in any of the environments
InitGlobal ==
    /\ guilds = <<>>
    /\ repositories = <<>>
    /\ subscriptions = <<>>
    /\ event_logs = <<>>
    /\ seq = ZeroSeq
    /\ last_insert_rowid = 0
    /\ ret = NoRet
    /\ dispatch = [d \in Dispatches |-> IdleDispatch]
    /\ ingest = [d \in Dispatches |-> NoRequest]
    /\ bot = GitHubBot
    /\ \E choice \in GlobalEnvChoices :
          config = [NoConfig EXCEPT !.env = Environ(choice)]
    /\ cmd = NoCall

NextGlobal ==
    \/ GetConfig
    \/ ReloadConfig
    \/ \E choice \in GlobalEnvChoices : SetEnviron(Environ(choice))

SpecGlobal == InitGlobal /\ [][NextGlobal]_vars

\* C22: get_config reads the environment exactly when the global instance
\* is unset; with the instance set it returns that very instance and leaves
\* it in place, whatever the environment has become; and a set instance is
\* replaced only by a step of reload_config, by an instance built from a
\* fresh read of the environment
C22_LoadOnce ==
    /\ [][GetConfig =>
             IF config.global.id = 0
             THEN config'.loads = config.loads + 1
             ELSE /\ config'.loads = config.loads
                  /\ config'.global = config.global
                  /\ config'.returned = config.global
                  /\ config'.error = "none"]_vars
    /\ [][(config.global.id # 0 /\ config'.global # config.global) =>
             /\ ReloadConfig
             /\ config'.loads = config.loads + 1
             /\ config'.global.id = config'.loads
             /\ config'.global.value.webhook_secret
                    = config.env["GITHUB_WEBHOOK_SECRET"]]_vars

\* get_config has returned the instance loaded under secret s1 although the
\* environment now says s2, a reload having replaced the first instance
C22_Witness ==
    /\ config.op = "get_config"
    /\ config.returned = config.global
    /\ config.global.id = 2
    /\ config.global.value.webhook_secret = "s1"
    /\ config.env["GITHUB_WEBHOOK_SECRET"] = "s2"

\* validate, read off a BotConfig
PassesValidation(value) ==
    /\ value.webhook_port \in 1..65535
    /\ value.log_level \in {"DEBUG", "INFO", "WARNING", "ERROR", "CRITICAL"}

\* C26: the global instance is unset or passes validate, and a get_config
\* or reload_config that raises ValueError leaves the global instance as it
\* was
C26_GlobalValidated ==
    /\ [](config.global.id # 0 => PassesValidation(config.global.value))
    /\ [][(GetConfig \/ ReloadConfig) /\ config'.error = "ValueError"
             => config'.global = config.global]_vars

\* ------------------------------------------------------------------------
\* Guild registration
\* ------------------------------------------------------------------------
\* GuildRepository.create called again and again on a fresh store
NextGuild ==
    \E g \in GuildIds, n \in GuildNames, t \in Times, now \in Times :
        GuildCreate(g, n, t, now)

SpecGuild == InitBot /\ [][NextGuild]_vars

\* C23: there is never more than one row per guild_id; a create leaves
\* exactly one row for its guild_id, holding the name just given; if the
\* guild had no row the row holds the created_at just given and no
\* updated_at, and if it had one the row keeps the created_at it had and
\* updated_at is set to the time of the call; the rows of other guilds stay
\* as they were
C23_GuildUpsert ==
    /\ [](\A g \in GuildIds : Cardinality(GuildRows(guilds, g)) <= 1)
    /\ [][\A g \in GuildIds, n \in GuildNames, t \in Times, now \in Times :
             GuildCreate(g, n, t, now) =>
                 /\ Cardinality(GuildRows(guilds', g)) = 1
                 /\ \A j \in GuildRows(guilds', g) :
                        /\ guilds'[j].name = n
                        /\ IF GuildRows(guilds, g) = {}
                           THEN /\ guilds'[j].created_at = t
                                /\ guilds'[j].updated_at = None
                           ELSE /\ \A i \in GuildRows(guilds, g) :
                                       guilds'[j].created_at
                                           = guilds[i].created_at
                                /\ guilds'[j].updated_at = now
                 /\ \A i \in 1..Len(guilds) :
                        guilds[i].guild_id # g => guilds'[i] = guilds[i]]_vars

\* guild 1, registered at time 2 as g1, was renamed g2 by a create that
\* carried another created_at
C23_Witness ==
    /\ ret.op = "guild_create"
    /\ ret.name = "g2"
    /\ \E i \in GuildRows(guilds, 1) :
           /\ guilds[i].name = "g2"
           /\ guilds[i].created_at = 2
           /\ guilds[i].updated_at = 1
    /\ GuildRows(guilds, 2) # {}

\* ------------------------------------------------------------------------
\* Guarded slash commands with the global error handler
\* ------------------------------------------------------------------------
NextCommandError ==
    \/ NextGuards
    \/ \E is_done \in BOOLEAN, o \in SendOutcomes :
           OnAppCommandError(is_done, o)

SpecCommandError == InitGuards /\ [][NextCommandError]_vars

\* C24: for an error it has handled, on_app_command_error made exactly one
\* attempt to send: a follow-up if the interaction had been responded to,
\* the initial response otherwise, never both; and whatever the send came
\* to, no exception left the handler
C24_OneErrorSend ==
    cmd.on_error.handled =>
        /\ cmd.on_error.followups + cmd.on_error.responses = 1
        /\ cmd.on_error.is_done => cmd.on_error.followups = 1
        /\ ~cmd.on_error.is_done => cmd.on_error.responses = 1
        /\ cmd.on_error.raised = "none"

\* a command that had already responded raised, and the follow-up with the
\* error embed failed
C24_Witness ==
    /\ cmd.on_error.handled
    /\ cmd.result.raised = "Exception"
    /\ cmd.on_error.is_done
    /\ cmd.on_error.followups = 1
    /\ cmd.on_error.outcome = "HTTPException"

\* ------------------------------------------------------------------------
\* create as the two awaited steps it is made of, on the shared connection
\* ------------------------------------------------------------------------
\* the coroutines calling create at the same time
Callers == {1, 2}

\* a caller that is not inside create
NoCreate == [pc |-> "idle", table |-> "none", rowid |-> None, id |-> None,
             error |-> "none"]

\* the rows the callers insert
RaceSubscriptions ==
    {[id |-> None, guild_id |-> 1, repository_id |-> 1, channel_id |-> ch,
      enabled_events |-> <<"pull_request">>, is_active |-> TRUE] :
         ch \in {"A", "B"}}

RaceEventLogs ==
    {[event_id |-> None, event_type |-> "pull_request", repository_id |-> 1,
      guild_id |-> 1, channel_id |-> "A", payload_hash |-> "h1",
      success |-> ok, error_message |-> IF ok THEN "None" ELSE "timeout"] :
         ok \in BOOLEAN}

\* SubscriptionRepository.create up to its first await:
\* await self.db.execute("INSERT INTO subscriptions ..."), which inserts and
\* commits, or raises IntegrityError on the UNIQUE constraint
SubscriptionCreateExecute(c, row) ==
    /\ ret[c].pc # "inserted"
    /\ SubConflict(row.guild_id, row.repository_id, row.channel_id)
           \/ Len(subscriptions) < MaxSubRows
    /\ IF SubConflict(row.guild_id, row.repository_id, row.channel_id)
       THEN /\ ret' = [ret EXCEPT ![c] =
                   [pc |-> "raised", table |-> "subscriptions",
                    rowid |-> None, id |-> None, error |-> "IntegrityError"]]
            /\ UNCHANGED <<subscriptions, seq, last_insert_rowid>>
       ELSE /\ subscriptions' = Append(subscriptions,
                   [row EXCEPT !.id = seq.subscriptions + 1])
            /\ seq' = [seq EXCEPT !.subscriptions = seq.subscriptions + 1]
            /\ last_insert_rowid' = seq.subscriptions + 1
            /\ ret' = [ret EXCEPT ![c] =
                   [pc |-> "inserted", table |-> "subscriptions",
                    rowid |-> seq.subscriptions + 1, id |-> None,
                    error |-> "none"]]
    /\ UNCHANGED <<guilds, repositories, event_logs, dispatch>>
    /\ UNCHANGED appVars

\* EventLogRepository.create up to its first await:
\* await self.db.execute("INSERT INTO event_logs ...")
EventLogCreateExecute(c, row) ==
    /\ ret[c].pc # "inserted"
    /\ Len(event_logs) < MaxSubRows
    /\ event_logs' = EventLogInsert(row)
    /\ seq' = [seq EXCEPT !.event_logs = seq.event_logs + 1]
    /\ last_insert_rowid' = seq.event_logs + 1
    /\ ret' = [ret EXCEPT ![c] =
           [pc |-> "inserted", table |-> "event_logs",
            rowid |-> seq.event_logs + 1, id |-> None, error |-> "none"]]
    /\ UNCHANGED <<guilds, repositories, subscriptions, dispatch>>
    /\ UNCHANGED appVars

\* the rest of either create: <object>.id = await self.db.get_last_insert_id(),
\* which runs SELECT last_insert_rowid() on the connection every caller
\* shares, and return
GetLastInsertId(c) ==
    /\ ret[c].pc = "inserted"
    /\ ret' = [ret EXCEPT ![c].pc = "returned", ![c].id = last_insert_rowid]
    /\ UNCHANGED <<storeVars, dispatch>>
    /\ UNCHANGED appVars

\* guild 1 and repository acme/widgets exist; nobody is inside create
InitRace ==
    /\ guilds = <<[guild_id |-> 1, name |-> "g1", created_at |-> 1,
                   updated_at |-> None]>>
    /\ repositories = <<[id |-> 1, owner |-> "acme", name |-> "widgets",
                         url |-> "u1"]>>
    /\ subscriptions = <<>>
    /\ event_logs = <<>>
    /\ seq = [repositories |-> 1, subscriptions |-> 0, event_logs |-> 0]
    /\ last_insert_rowid = 1
    /\ ret = [c \in Callers |-> NoCreate]
    /\ dispatch = [d \in Dispatches |-> IdleDispatch]
    /\ AppIdle

\* the event loop runs one awaited step of one caller at a time
NextRace ==
    \/ \E c \in Callers, row \in RaceSubscriptions :
           SubscriptionCreateExecute(c, row)
    \/ \E c \in Callers, row \in RaceEventLogs : EventLogCreateExecute(c, row)
    \/ \E c \in Callers : GetLastInsertId(c)

SpecRace == InitRace /\ [][NextRace]_vars

\* C25: the id a create call returns on its object is the id of the row that
\* same call inserted, whatever the other caller did in between
C25_IdIsOwnRow ==
    \A c \in Callers :
        ret[c].pc = "returned" => ret[c].id = ret[c].rowid

\* ------------------------------------------------------------------------
\* The declared foreign keys
\* ------------------------------------------------------------------------
\* the delivery records written while the foreign keys are explored
ForeignKeyLogs ==
    {[event_id |-> None, event_type |-> "pull_request", repository_id |-> r,
      guild_id |-> g, channel_id |-> "A", payload_hash |-> "h1",
      success |-> TRUE, error_message |-> "None"] :
         g \in GuildIds, r \in RepoIds}

\* guild 1 and repository acme/widgets (id 1) may be created; subscriptions
\* and delivery records name guild 1 or 2 and repository 1 or 2
NextForeignKeys ==
    \/ GuildCreate(1, "g1", 1, 1)
    \/ RepositoryCreate("acme", "widgets", "u1")
    \/ \E g \in GuildIds, r \in RepoIds :
           SubscriptionCreate(g, r, "A", <<"pull_request">>, TRUE)
    \/ \E row \in ForeignKeyLogs : EventLogCreate(row)

SpecForeignKeys == Init /\ [][NextForeignKeys]_vars

\* C27: every subscription row and every delivery record names a guild_id
\* that has a row in guilds and a repository_id that has a row in
\* repositories
C27_ReferentialIntegrity ==
    /\ \A i \in 1..Len(subscriptions) :
           /\ GuildRows(guilds, subscriptions[i].guild_id) # {}
           /\ \E j \in 1..Len(repositories) :
                  repositories[j].id = subscriptions[i].repository_id
    /\ \A i \in 1..Len(event_logs) :
           /\ GuildRows(guilds, event_logs[i].guild_id) # {}
           /\ \E j \in 1..Len(repositories) :
                  repositories[j].id = event_logs[i].repository_id

\* C28: under has_permissions and is_owner a 'Permission Denied' or 'Access
\* Denied' response means the handler did not run; and when the handler ran
\* and raised, that exception leaves the wrapper and no denial is sent
C28_DenialMeansRejected ==
    cmd.guard \in {"has_permissions", "is_owner"} =>
        /\ (\E i \in 1..Len(cmd.result.responses) :
                cmd.result.responses[i].title
                    \in {"Permission Denied", "Access Denied"})
               => cmd.result.handler_calls = 0
        /\ cmd.result.handler_calls = 1 /\ cmd.handler # "returns"
               => /\ cmd.result.raised = cmd.handler
                  /\ cmd.result.responses = <<>>

====
